---------------------------- MODULE Spec2Model ----------------------------
(***************************************************************************)
(* The expression pipeline of olc-diy: Lexer::parse (the state-object      *)
(* lexer of src/lexer.rs and src/lexer/shared_types/states.rs), then       *)
(* Compiler::to_expression (shunting-yard, src/compiler.rs), then          *)
(* Expression::solve (postfix evaluation, src/solver.rs).  Before them the  *)
(* older Tokenizer::parse of src/tokenizer.rs, the lexer main's process    *)
(* calls, runs on the same text: its result is kept beside the Lexer's.    *)
(*                                                                         *)
(* Text is a sequence of one-character strings.  An f64 is modelled as an  *)
(* exact fraction [n, d] with the IEEE special values kept apart:          *)
(*   d > 0, n # 0 : the finite number n/d in lowest terms                  *)
(*   n = 0, d = 1 : +0.0          n = 0, d = -1 : -0.0                     *)
(*   n = 1, d = 0 : +infinity     n = -1, d = 0 : -infinity                *)
(*   n = 0, d = 0 : NaN                                                    *)
(* Rounding is not modelled: every input below keeps its values exactly    *)
(* representable or compares two evaluations that round alike.             *)
(***************************************************************************)
EXTENDS Integers, Sequences, FiniteSets, TLC

VARIABLES
    input,                  \* Tokenizer.input and TemporaryData.input
    tk_current_state,       \* Tokenizer.current_state
    tk_chars,               \* chars of Tokenizer::parse
    tk_output,              \* output of Tokenizer::parse
    tk_current_token_string,\* current_token_string of Tokenizer::parse
    tk_current_token,       \* current_token of Tokenizer::parse
    tk_decimal_point_found, \* decimal_point_found of Tokenizer::parse
    parentheses_balance_checker, \* of Tokenizer::parse (i32)
    scope_balance_checker,  \* of Tokenizer::parse (i32)
    tk_result,              \* "start", "running", "ok" or the failure of Tokenizer::parse
    chars,                  \* TemporaryData.chars: the characters not yet consumed
    state,                  \* the current Box<dyn State> of Lexer::parse
    output,                 \* TemporaryData.output
    current_token_string,   \* TemporaryData.current_token_string
    current_token,          \* TemporaryData.current_token
    decimal_point_found,    \* TemporaryData.decimal_point_found
    paren_balance_check,    \* TemporaryData.paren_balance_check (u8)
    scope_balance_check,    \* TemporaryData.scope_balance_check (u8)
    lex_result,             \* "running", "ok" or the failure of Lexer::parse
    token_index,            \* position of the loop over input.iter() in to_expression
    operator_stack,         \* Compiler.operator_stack
    previous_token,         \* Compiler.previous_token: <<>> is None, <<t>> is Some(t)
    rpn,                    \* the postfix queue built by to_expression, then Expression.rpn
    compile_result,         \* "running", "ok" or the failure of to_expression
    rpn_index,              \* position of the loop over self.rpn.iter() in solve
    solve_stack,            \* solve_stack of Expression::solve
    solve_result,           \* "running", "ok" or the failure of solve
    solution,               \* the f64 returned by solve: <<>> until it returns Ok
    infix_result,           \* "running", "ok" or the failure of display_infix
    infix_text,             \* the String display_infix returns
    retokenized             \* TRUE once the postfix rendering has been handed to the lexer

vars == <<input, tk_current_state, tk_chars, tk_output, tk_current_token_string,
          tk_current_token, tk_decimal_point_found, parentheses_balance_checker,
          scope_balance_checker, tk_result, chars, state, output, current_token_string, current_token,
          decimal_point_found, paren_balance_check, scope_balance_check,
          lex_result, token_index, operator_stack, previous_token, rpn,
          compile_result, rpn_index, solve_stack, solve_result, solution,
          infix_result, infix_text, retokenized>>

render_vars == <<infix_result, infix_text, retokenized>>

lexer_vars == <<chars, state, output, current_token_string, current_token,
                decimal_point_found, paren_balance_check, scope_balance_check,
                lex_result>>

compiler_vars == <<token_index, operator_stack, previous_token, rpn, compile_result>>

solver_vars == <<rpn_index, solve_stack, solve_result, solution>>

tokenizer_vars == <<tk_current_state, tk_chars, tk_output, tk_current_token_string,
                    tk_current_token, tk_decimal_point_found,
                    parentheses_balance_checker, scope_balance_checker, tk_result>>

----------------------------------------------------------------------------
(* Bounds of the explored inputs.                                          *)

\* Literals of the generated well-formed expressions are the digits 1..MaxDigit.
MaxDigit == 2

\* Generated well-formed expressions have at most MaxNodes binary operators
\* and parenthesis pairs together.
MaxNodes == 1

\* Raw texts over RawAlphabet have at most MaxRawLen characters.
MaxRawLen == 4

\* Number texts over NumberAlphabet have at most MaxNumberLen characters.
MaxNumberLen == 3

\* A lexer that completes a token without consuming a character never stops:
\* every token must consume at least one character, so once the output holds
\* more tokens than the input has characters the run is in a cycle.  The run
\* is followed for MaxSurplus such tokens and then recorded as "Spin".
MaxSurplus == 1

----------------------------------------------------------------------------
(* f64 arithmetic.                                                         *)

Abs(x) == IF x < 0 THEN -x ELSE x

RECURSIVE Gcd(_, _)
Gcd(a, b) == IF b = 0 THEN a ELSE Gcd(b, a % b)

NaN == [n |-> 0, d |-> 0]
Zero(sign) == [n |-> 0, d |-> sign]
Infinity(sign) == [n |-> sign, d |-> 0]

\* The finite f64 num/den, den > 0.
Finite(num, den) ==
    IF num = 0 THEN Zero(1)
    ELSE LET g == Gcd(Abs(num), den) IN [n |-> num \div g, d |-> den \div g]

Int2F64(i) == Finite(i, 1)

IsNaN(v) == v.n = 0 /\ v.d = 0
IsInf(v) == v.n # 0 /\ v.d = 0
IsZero(v) == v.n = 0 /\ v.d # 0
SignOf(v) == IF IsZero(v) THEN v.d ELSE IF v.n < 0 THEN -1 ELSE 1

\* -operand
F64Neg(v) ==
    IF IsNaN(v) THEN NaN
    ELSE IF IsZero(v) THEN Zero(-v.d)
    ELSE [n |-> -v.n, d |-> v.d]

\* left + right
F64Add(a, b) ==
    IF IsNaN(a) \/ IsNaN(b) THEN NaN
    ELSE IF IsInf(a) /\ IsInf(b) THEN (IF a.n = b.n THEN a ELSE NaN)
    ELSE IF IsInf(a) THEN a
    ELSE IF IsInf(b) THEN b
    ELSE IF IsZero(a) /\ IsZero(b) THEN (IF a.d = -1 /\ b.d = -1 THEN Zero(-1) ELSE Zero(1))
    ELSE IF IsZero(a) THEN b
    ELSE IF IsZero(b) THEN a
    ELSE Finite(a.n * b.d + b.n * a.d, a.d * b.d)

\* left - right
F64Sub(a, b) == F64Add(a, F64Neg(b))

\* left * right
F64Mul(a, b) ==
    IF IsNaN(a) \/ IsNaN(b) THEN NaN
    ELSE IF (IsInf(a) /\ IsZero(b)) \/ (IsZero(a) /\ IsInf(b)) THEN NaN
    ELSE IF IsInf(a) \/ IsInf(b) THEN Infinity(SignOf(a) * SignOf(b))
    ELSE IF IsZero(a) \/ IsZero(b) THEN Zero(SignOf(a) * SignOf(b))
    ELSE Finite(a.n * b.n, a.d * b.d)

\* left / right
F64Div(a, b) ==
    IF IsNaN(a) \/ IsNaN(b) THEN NaN
    ELSE IF (IsInf(a) /\ IsInf(b)) \/ (IsZero(a) /\ IsZero(b)) THEN NaN
    ELSE IF IsInf(a) \/ IsZero(b) THEN Infinity(SignOf(a) * SignOf(b))
    ELSE IF IsInf(b) \/ IsZero(a) THEN Zero(SignOf(a) * SignOf(b))
    ELSE Finite(SignOf(b) * a.n * b.d, a.d * Abs(b.n))

RECURSIVE F64Powi(_, _)
F64Powi(a, e) == IF e = 0 THEN Int2F64(1) ELSE F64Mul(a, F64Powi(a, e - 1))

\* left.powf(right).  Exact for an integral exponent; any other exponent has
\* no exact fraction and is mapped to NaN (no explored input reaches it).
F64Powf(a, b) ==
    IF IsZero(b) THEN Int2F64(1)
    ELSE IF IsNaN(a) \/ IsNaN(b) \/ IsInf(b) \/ b.d # 1 THEN NaN
    ELSE IF b.n > 0 THEN F64Powi(a, b.n)
    ELSE F64Div(Int2F64(1), F64Powi(a, -b.n))

----------------------------------------------------------------------------
(* Character classes: the lookup tables of states.rs.                      *)

make_lut(s) == s

NUMERIC_DIGITS == make_lut({"0", "1", "2", "3", "4", "5", "6", "7", "8", "9"})
REAL_NUMERIC_DIGITS == make_lut({"."} \cup NUMERIC_DIGITS)
HEX_NUMERIC_DIGITS ==
    make_lut(NUMERIC_DIGITS \cup {"A", "B", "C", "D", "E", "F", "a", "b", "c", "d", "e", "f"})
BINARY_NUMERIC_DIGITS == make_lut({"0", "1"})
WHITESPACE == make_lut({" ", "\t", "\n", "\r", "\f"})
OPERATOR_CHARACTERS ==
    make_lut({"!", "$", "%", "^", "&", "*", "+", "-", "=", "#", "@", "?", "|", "U+0060",
              "/", "\\", "<", ">", "~"})
SYMBOL_CHARACTERS ==
    make_lut({"a", "b", "c", "d", "e", "f", "g", "h", "i", "j", "k", "l", "m", "n",
              "o", "p", "q", "r", "s", "t", "u", "v", "w", "x", "y", "z",
              "A", "B", "C", "D", "E", "F", "G", "H", "I", "J", "K", "L", "M", "N",
              "O", "P", "Q", "R", "S", "T", "U", "V", "W", "X", "Y", "Z", "_"}
             \cup NUMERIC_DIGITS)

\* Characters whose code point is 256 or more, written by their code point:
\* TABLE[c as usize] indexes past the 256 entries of a table and panics.
\* (The grave accent, an operator character, is written U+0060.)
WideCharacters == {"U+03C0", "U+20AC"}
OutOfTable(c) == c \in WideCharacters

----------------------------------------------------------------------------
(* Operators: src/lexer/shared_types/operators.rs.                         *)

unary(kind, precedence) == [kind |-> kind, precedence |-> precedence, arity |-> 1]

binary(kind, precedence) == [kind |-> kind, precedence |-> precedence, arity |-> 2]

\* Operator::from with the product and the quotient given the precedence of
\* the sum.
Operator_from_flat(str) ==
    CASE str = <<"+">> -> <<binary("Sum", 2)>>
      [] str = <<"-">> -> <<binary("Difference", 2)>>
      [] str = <<"*">> -> <<binary("Product", 2)>>
      [] str = <<"/">> -> <<binary("Quotient", 2)>>
      [] str = <<"^">> \/ str = <<"*", "*">> -> <<binary("Exp", 4)>>
      [] str = <<"!">> -> <<unary("LogicalNot", 4)>>
      [] str = <<"&", "&">> -> <<binary("LogicalAnd", 3)>>
      [] str = <<"|", "|">> -> <<binary("LogicalOr", 3)>>
      [] str = <<"=", "=">> -> <<binary("Equals", 1)>>
      [] str = <<"!", "=">> -> <<binary("Different", 1)>>
      [] str = <<">">> -> <<binary("GreaterThan", 1)>>
      [] str = <<">", "=">> -> <<binary("GreaterThanEqual", 1)>>
      [] str = <<"<">> -> <<binary("LessThan", 1)>>
      [] str = <<"<", "=">> -> <<binary("LessThanEqual", 1)>>
      [] OTHER -> <<>>

\* Operator::from: <<op>> for Ok(op), <<>> for Err("Unknown Operator").
Operator_from(str) ==
    CASE str = <<"+">> -> <<binary("Sum", 2)>>
      [] str = <<"-">> -> <<binary("Difference", 2)>>
      [] str = <<"*">> -> <<binary("Product", 3)>>
      [] str = <<"/">> -> <<binary("Quotient", 3)>>
      [] str = <<"^">> \/ str = <<"*", "*">> -> <<binary("Exp", 4)>>
      [] str = <<"!">> -> <<unary("LogicalNot", 4)>>
      [] str = <<"&", "&">> -> <<binary("LogicalAnd", 3)>>
      [] str = <<"|", "|">> -> <<binary("LogicalOr", 3)>>
      [] str = <<"=", "=">> -> <<binary("Equals", 1)>>
      [] str = <<"!", "=">> -> <<binary("Different", 1)>>
      [] str = <<">">> -> <<binary("GreaterThan", 1)>>
      [] str = <<">", "=">> -> <<binary("GreaterThanEqual", 1)>>
      [] str = <<"<">> -> <<binary("LessThan", 1)>>
      [] str = <<"<", "=">> -> <<binary("LessThanEqual", 1)>>
      [] OTHER -> <<>>

\* impl Display for OperatorKind
OperatorKind_to_string(kind) ==
    CASE kind = "Exp" -> <<"^">>
      [] kind = "Product" -> <<"*">>
      [] kind = "Quotient" -> <<"/">>
      [] kind \in {"Difference", "Negate"} -> <<"-">>
      [] kind \in {"Sum", "Positive"} -> <<"+">>
      [] kind = "LogicalOr" -> <<"|", "|">>
      [] kind = "LogicalAnd" -> <<"&", "&">>
      [] kind = "LogicalNot" -> <<"!">>
      [] kind = "Equals" -> <<"=", "=">>
      [] kind = "Different" -> <<"!", "=">>
      [] kind = "GreaterThan" -> <<">">>
      [] kind = "GreaterThanEqual" -> <<">", "=">>
      [] kind = "LessThan" -> <<"<">>
      [] kind = "LessThanEqual" -> <<"<", "=">>

\* Operator::compute_2
compute_2(self, left, right) ==
    CASE self.kind = "Exp" -> F64Powf(left, right)
      [] self.kind = "Product" -> F64Mul(left, right)
      [] self.kind = "Quotient" -> F64Div(left, right)
      [] self.kind = "Difference" -> F64Sub(left, right)
      [] self.kind = "Sum" -> F64Add(left, right)
      [] OTHER -> Zero(1)

\* Operator::compute_1
compute_1(self, operand) ==
    CASE self.kind = "Negate" -> F64Neg(operand)
      [] self.kind = "Positive" -> operand
      [] OTHER -> Zero(1)

\* correct_arity without the test for a closing parenthesis.
correct_arity_after_literal_only(self, previous) ==
    LET is_unary == IF previous # <<>>
                    THEN previous[1].kind # "NumericLiteral"
                    ELSE TRUE
    IN CASE self.kind = "Difference" -> IF is_unary THEN unary("Negate", 5) ELSE self
         [] self.kind = "Sum" -> IF is_unary THEN unary("Positive", 5) ELSE self
         [] self.kind = "Negate" -> IF is_unary THEN self ELSE binary("Difference", 2)
         [] self.kind = "Positive" -> IF is_unary THEN self ELSE binary("Sum", 2)
         [] OTHER -> self

\* correct_arity giving the unary minus and plus the precedence of the
\* product.
correct_arity_weak_unary(self, previous) ==
    LET is_unary == IF previous # <<>>
                    THEN /\ previous[1].kind # "NumericLiteral"
                         /\ previous[1].kind # "ClosingParenthesis"
                    ELSE TRUE
    IN CASE self.kind = "Difference" -> IF is_unary THEN unary("Negate", 3) ELSE self
         [] self.kind = "Sum" -> IF is_unary THEN unary("Positive", 3) ELSE self
         [] self.kind = "Negate" -> IF is_unary THEN self ELSE binary("Difference", 2)
         [] self.kind = "Positive" -> IF is_unary THEN self ELSE binary("Sum", 2)
         [] OTHER -> self

\* Operator::correct_arity; previous is <<>> (None) or <<token>> (Some).
correct_arity(self, previous) ==
    LET is_unary == IF previous # <<>>
                    THEN /\ previous[1].kind # "NumericLiteral"
                         /\ previous[1].kind # "ClosingParenthesis"
                    ELSE TRUE
    IN CASE self.kind = "Difference" -> IF is_unary THEN unary("Negate", 5) ELSE self
         [] self.kind = "Sum" -> IF is_unary THEN unary("Positive", 5) ELSE self
         [] self.kind = "Negate" -> IF is_unary THEN self ELSE binary("Difference", 2)
         [] self.kind = "Positive" -> IF is_unary THEN self ELSE binary("Sum", 2)
         [] OTHER -> self

----------------------------------------------------------------------------
(* Tokens: src/lexer/shared_types.rs.  kind is the TokenKind tag, op its   *)
(* Operator payload (NoOperator for the other tags), value is <<>> for     *)
(* None and <<v>> for Some(v), id the lexeme.                              *)

NoOperator == [kind |-> "None", precedence |-> 0, arity |-> 0]

Token(kind, op, value, id) == [kind |-> kind, op |-> op, value |-> value, id |-> id]

Token_new == Token("Unknown", NoOperator, <<>>, <<>>)

DigitValue(c) ==
    CASE c = "0" -> 0 [] c = "1" -> 1 [] c = "2" -> 2 [] c = "3" -> 3 [] c = "4" -> 4
      [] c = "5" -> 5 [] c = "6" -> 6 [] c = "7" -> 7 [] c = "8" -> 8 [] c = "9" -> 9
      [] c \in {"a", "A"} -> 10 [] c \in {"b", "B"} -> 11 [] c \in {"c", "C"} -> 12
      [] c \in {"d", "D"} -> 13 [] c \in {"e", "E"} -> 14 [] c \in {"f", "F"} -> 15

RECURSIVE Pow(_, _)
Pow(b, e) == IF e = 0 THEN 1 ELSE b * Pow(b, e - 1)

\* The number a run of digits denotes in the given radix.
RECURSIVE DigitsValue(_, _)
DigitsValue(str, radix) ==
    IF str = <<>> THEN 0
    ELSE DigitsValue(SubSeq(str, 1, Len(str) - 1), radix) * radix + DigitValue(str[Len(str)])

\* A parse that stops at the decimal point.
parse_f64_truncating(str) ==
    LET point == IF \E i \in 1..Len(str) : str[i] = "."
                 THEN CHOOSE i \in 1..Len(str) : str[i] = "."
                 ELSE Len(str) + 1
    IN Finite(DigitsValue(SubSeq(str, 1, point - 1), 10), 1)

\* str.parse::<f64>() of a digit run with at most one decimal point, which is
\* all NumericLiteral and FancyNumericLiteral ever hand to from_digits.
parse_f64(str) ==
    LET digits == SelectSeq(str, LAMBDA c : c # ".")
        point == IF \E i \in 1..Len(str) : str[i] = "."
                 THEN CHOOSE i \in 1..Len(str) : str[i] = "."
                 ELSE Len(str)
    IN Finite(DigitsValue(digits, 10), Pow(10, Len(str) - point))

\* str.trim_start_matches(prefix) for a two-character prefix
RECURSIVE trim_start_matches(_, _)
trim_start_matches(str, prefix) ==
    IF Len(str) >= 2 /\ SubSeq(str, 1, 2) = prefix
    THEN trim_start_matches(SubSeq(str, 3, Len(str)), prefix)
    ELSE str

\* A u64 holds at most 16 hexadecimal or 64 binary significant digits.
U64HexDigits == 16

U64BinDigits == 64

RECURSIVE trim_leading_zeros(_)
trim_leading_zeros(str) ==
    IF str # <<>> /\ Head(str) = "0" THEN trim_leading_zeros(Tail(str)) ELSE str

\* u64::from_str_radix(str, radix).unwrap_or(0): 0 for an empty run, for a
\* character that is no digit of the radix, and for a value past u64::MAX.
from_str_radix_or_0(str, digits, radix, width) ==
    IF str = <<>> \/ \E i \in 1..Len(str) : str[i] \notin digits THEN 0
    ELSE IF Len(trim_leading_zeros(str)) > width THEN 0
    ELSE DigitsValue(str, radix)

Token_from_digits(str) == Token("NumericLiteral", NoOperator, <<parse_f64(str)>>, str)

\* from_hex parsing the text with its prefix still on.
Token_from_hex_untrimmed(str) ==
    Token("NumericLiteral", NoOperator,
          <<Int2F64(from_str_radix_or_0(str, HEX_NUMERIC_DIGITS, 16, U64HexDigits))>>, str)

Token_from_hex(str) ==
    Token("NumericLiteral", NoOperator,
          <<Int2F64(from_str_radix_or_0(trim_start_matches(str, <<"0", "x">>),
                                        HEX_NUMERIC_DIGITS, 16, U64HexDigits))>>, str)

\* from_bin keeping the digits without the prefix as the lexeme.
Token_from_bin_lexeme_trimmed(str) ==
    Token("NumericLiteral", NoOperator,
          <<Int2F64(from_str_radix_or_0(trim_start_matches(str, <<"0", "b">>),
                                        BINARY_NUMERIC_DIGITS, 2, U64BinDigits))>>,
          trim_start_matches(str, <<"0", "b">>))

Token_from_bin(str) ==
    Token("NumericLiteral", NoOperator,
          <<Int2F64(from_str_radix_or_0(trim_start_matches(str, <<"0", "b">>),
                                        BINARY_NUMERIC_DIGITS, 2, U64BinDigits))>>, str)

Token_from_str(str) == Token("StringLiteral", NoOperator, <<>>, str)

\* from_operator filling the value with 0.0.
Token_from_operator_with_value(op) ==
    Token("Operator", op, <<Int2F64(0)>>, OperatorKind_to_string(op.kind))

Token_from_operator(op) == Token("Operator", op, <<>>, OperatorKind_to_string(op.kind))

Token_open_parenthesis == Token("OpeningParenthesis", NoOperator, <<>>, <<"(">>)

Token_close_parenthesis == Token("ClosingParenthesis", NoOperator, <<>>, <<")">>)

Token_open_scope == Token("OpeningScope", NoOperator, <<>>, <<"{">>)

Token_close_scope == Token("ClosingScope", NoOperator, <<>>, <<"}">>)

Token_separator == Token("Separator", NoOperator, <<>>, <<",">>)

Token_end_of_statement == Token("EndOfStatement", NoOperator, <<>>, <<";">>)

Token_symbol(name) == Token("Symbol", NoOperator, <<>>, name)

\* Token::update_kind, the new kind being TokenKind::Operator(op)
\* update_kind that also clears the lexeme.
update_kind_dropping_lexeme(token, op) ==
    [token EXCEPT !.kind = "Operator", !.op = op, !.id = <<>>]

update_kind(token, op) == [token EXCEPT !.kind = "Operator", !.op = op]

----------------------------------------------------------------------------
(* Tokenizer::parse of src/tokenizer.rs: one action for the check of the   *)
(* empty input, one per arm of the match on current_state inside the loop  *)
(* while let Some(&c) = chars.peek(), and one for the code after the loop. *)

\* Operator::from of tokenizer.rs: the arithmetic operators only.
Tokenizer_Operator_from(str) ==
    CASE str = <<"+">> -> <<binary("Sum", 2)>>
      [] str = <<"-">> -> <<binary("Difference", 2)>>
      [] str = <<"*">> -> <<binary("Product", 3)>>
      [] str = <<"/">> -> <<binary("Quotient", 3)>>
      [] str \in {<<"^">>, <<"*", "*">>} -> <<binary("Exp", 4)>>
      [] OTHER -> <<>>

Tokenized(s, cs, str, tok, dp, pb, sb, out) ==
    /\ tk_current_state' = s
    /\ tk_chars' = cs
    /\ tk_current_token_string' = str
    /\ tk_current_token' = tok
    /\ tk_decimal_point_found' = dp
    /\ parentheses_balance_checker' = pb
    /\ scope_balance_checker' = sb
    /\ tk_output' = out
    /\ tk_result' = "running"

\* Tokenizer::parse returns: "ok" for Ok(output), else the failure.
TokenizerReturn(result, out) ==
    /\ tk_result' = result
    /\ tk_output' = out
    /\ UNCHANGED <<tk_current_state, tk_chars, tk_current_token_string,
                   tk_current_token, tk_decimal_point_found,
                   parentheses_balance_checker, scope_balance_checker>>

TokenizerFail(err) == TokenizerReturn(err, tk_output)

\* Sets next_state, changing only the token text and the input position.
TokenizerScan(next_state, cs, str) ==
    Tokenized(next_state, cs, str, tk_current_token, tk_decimal_point_found,
              parentheses_balance_checker, scope_balance_checker, tk_output)

\* Sets next_state to CompleteToken with the token just built.
TokenizerBuilt(cs, str, tok) ==
    Tokenized("CompleteToken", cs, str, tok, tk_decimal_point_found,
              parentheses_balance_checker, scope_balance_checker, tk_output)

\* One iteration of the loop with current_state = s.
Iterating(s) == tk_result = "running" /\ tk_chars # <<>> /\ tk_current_state = s

TokenizerReturned == tk_result \notin {"start", "running"}

Tokenizer_Start ==
    /\ tk_result = "start"
    /\ IF input = <<>>
       THEN TokenizerFail("EmptyInput")
       ELSE TokenizerScan(tk_current_state, tk_chars, tk_current_token_string)
    /\ UNCHANGED <<input, render_vars, lexer_vars, compiler_vars, solver_vars>>

Tokenizer_NewToken ==
    /\ Iterating("NewToken")
    /\ LET c == Head(tk_chars)
           next_state ==
               IF c \in NUMERIC_DIGITS
               THEN (IF c = "0" THEN "FancyNumericLiteral" ELSE "NumericLiteral")
               ELSE IF c \in OPERATOR_CHARACTERS THEN "Operator"
               ELSE IF c = "(" THEN "ParenthesisOpen"
               ELSE IF c = ")" THEN "ParenthesisClose"
               ELSE IF c = "{" THEN "ScopeOpen"
               ELSE IF c = "}" THEN "ScopeClose"
               ELSE IF c = "," THEN "Separator"
               ELSE IF c = ";" THEN "EndOfStatement"
               ELSE IF c = "\"" THEN "StringLiteral"
               ELSE "SymbolName"
       IN IF OutOfTable(c) THEN TokenizerFail("Panic")
          ELSE IF c \in WHITESPACE
          THEN Tokenized("NewToken", Tail(tk_chars), <<>>, Token_new, FALSE,
                         parentheses_balance_checker, scope_balance_checker, tk_output)
          ELSE IF c = "0"
          THEN Tokenized(next_state, Tail(tk_chars), <<c>>, Token_new, FALSE,
                         parentheses_balance_checker, scope_balance_checker, tk_output)
          ELSE IF next_state = "StringLiteral"
          THEN Tokenized(next_state, Tail(tk_chars), <<>>, Token_new, FALSE,
                         parentheses_balance_checker, scope_balance_checker, tk_output)
          ELSE Tokenized(next_state, tk_chars, <<>>, Token_new, FALSE,
                         parentheses_balance_checker, scope_balance_checker, tk_output)
    /\ UNCHANGED <<input, render_vars, lexer_vars, compiler_vars, solver_vars>>

Tokenizer_CompleteToken ==
    /\ Iterating("CompleteToken")
    /\ IF Len(tk_output) >= Len(input) + MaxSurplus
       THEN TokenizerFail("Spin")
       ELSE Tokenized("NewToken", tk_chars, tk_current_token_string, tk_current_token,
                      tk_decimal_point_found, parentheses_balance_checker,
                      scope_balance_checker, Append(tk_output, tk_current_token))
    /\ UNCHANGED <<input, render_vars, lexer_vars, compiler_vars, solver_vars>>

\* The arms that take digits: after the digit is pushed the token is built
\* at once when no character is left.  token_pushed is the token built from
\* the text with the digit pushed, token_so_far from the text before it.
Tokenizer_digit_arm(self_state, digits, also_rejected, decimal, token_pushed, token_so_far) ==
    LET c == Head(tk_chars)
        str == Append(tk_current_token_string, c)
    IN IF OutOfTable(c) THEN TokenizerFail("Panic")
       ELSE IF c \in digits
       THEN IF decimal /\ c = "." /\ tk_decimal_point_found
            THEN TokenizerFail("MalformedNumber")
            ELSE Tokenized(IF Tail(tk_chars) # <<>> THEN self_state ELSE "CompleteToken",
                           Tail(tk_chars), str,
                           IF Tail(tk_chars) # <<>> THEN tk_current_token
                           ELSE token_pushed,
                           tk_decimal_point_found \/ (decimal /\ c = "."),
                           parentheses_balance_checker, scope_balance_checker, tk_output)
       ELSE IF c \in SYMBOL_CHARACTERS \/ c \in also_rejected
       THEN TokenizerFail("MalformedNumber")
       ELSE TokenizerBuilt(tk_chars, tk_current_token_string, token_so_far)

Tokenizer_NumericLiteral ==
    /\ Iterating("NumericLiteral")
    /\ Tokenizer_digit_arm("NumericLiteral", REAL_NUMERIC_DIGITS, {}, TRUE,
                           Token_from_digits(Append(tk_current_token_string, Head(tk_chars))),
                           Token_from_digits(tk_current_token_string))
    /\ UNCHANGED <<input, render_vars, lexer_vars, compiler_vars, solver_vars>>

Tokenizer_StringLiteral ==
    /\ Iterating("StringLiteral")
    /\ IF Head(tk_chars) # "\""
       THEN TokenizerScan("StringLiteral", Tail(tk_chars),
                          Append(tk_current_token_string, Head(tk_chars)))
       ELSE TokenizerBuilt(Tail(tk_chars), tk_current_token_string,
                           Token_from_str(tk_current_token_string))
    /\ UNCHANGED <<input, render_vars, lexer_vars, compiler_vars, solver_vars>>

Tokenizer_SymbolName ==
    /\ Iterating("SymbolName")
    /\ LET c == Head(tk_chars)
           str == Append(tk_current_token_string, c)
       IN IF OutOfTable(c) THEN TokenizerFail("Panic")
          ELSE IF c \in SYMBOL_CHARACTERS
          THEN IF Tail(tk_chars) # <<>>
               THEN TokenizerScan("SymbolName", Tail(tk_chars), str)
               ELSE TokenizerBuilt(Tail(tk_chars), str, Token_symbol(str))
          ELSE TokenizerBuilt(tk_chars, tk_current_token_string,
                              Token_symbol(tk_current_token_string))
    /\ UNCHANGED <<input, render_vars, lexer_vars, compiler_vars, solver_vars>>

Tokenizer_Operator ==
    /\ Iterating("Operator")
    /\ LET c == Head(tk_chars)
           tmp_op == Append(tk_current_token_string, c)
           operator == Tokenizer_Operator_from(tk_current_token_string)
       IN IF OutOfTable(c) THEN TokenizerFail("Panic")
          ELSE IF c \in OPERATOR_CHARACTERS
          THEN IF Tokenizer_Operator_from(tmp_op) # <<>>
               THEN TokenizerScan("Operator", Tail(tk_chars), tmp_op)
               ELSE IF operator # <<>>
               THEN TokenizerBuilt(tk_chars, tk_current_token_string,
                                   Token_from_operator(operator[1]))
               ELSE TokenizerScan("Operator", Tail(tk_chars), tmp_op)
          ELSE IF operator # <<>>
          THEN TokenizerBuilt(tk_chars, tk_current_token_string,
                              Token_from_operator(operator[1]))
          ELSE TokenizerFail("UnknownOperator")
    /\ UNCHANGED <<input, render_vars, lexer_vars, compiler_vars, solver_vars>>

Tokenizer_FancyNumericLiteral ==
    /\ Iterating("FancyNumericLiteral")
    /\ LET c == Head(tk_chars)
       IN IF c = "x"
          THEN TokenizerScan("HexNumericLiteral", Tail(tk_chars),
                             Append(tk_current_token_string, c))
          ELSE IF c = "b"
          THEN TokenizerScan("BinaryNumericLiteral", Tail(tk_chars),
                             Append(tk_current_token_string, c))
          ELSE IF OutOfTable(c) THEN TokenizerFail("Panic")
          ELSE IF c \in REAL_NUMERIC_DIGITS
          THEN TokenizerScan("NumericLiteral", tk_chars, tk_current_token_string)
          ELSE TokenizerFail("MalformedNumber")
    /\ UNCHANGED <<input, render_vars, lexer_vars, compiler_vars, solver_vars>>

Tokenizer_BinaryNumericLiteral ==
    /\ Iterating("BinaryNumericLiteral")
    /\ Tokenizer_digit_arm("BinaryNumericLiteral", BINARY_NUMERIC_DIGITS, {"."}, FALSE,
                           Token_from_bin(Append(tk_current_token_string, Head(tk_chars))),
                           Token_from_bin(tk_current_token_string))
    /\ UNCHANGED <<input, render_vars, lexer_vars, compiler_vars, solver_vars>>

Tokenizer_HexNumericLiteral ==
    /\ Iterating("HexNumericLiteral")
    /\ Tokenizer_digit_arm("HexNumericLiteral", HEX_NUMERIC_DIGITS, {"."}, FALSE,
                           Token_from_hex(Append(tk_current_token_string, Head(tk_chars))),
                           Token_from_hex(tk_current_token_string))
    /\ UNCHANGED <<input, render_vars, lexer_vars, compiler_vars, solver_vars>>

\* The four arms that push the character, consume it and move a counter.
Tokenizer_balance_arm(pb, sb, token) ==
    Tokenized("CompleteToken", Tail(tk_chars),
              Append(tk_current_token_string, Head(tk_chars)), token,
              tk_decimal_point_found, pb, sb, tk_output)

Tokenizer_ParenthesisOpen ==
    /\ Iterating("ParenthesisOpen")
    /\ Tokenizer_balance_arm(parentheses_balance_checker + 1, scope_balance_checker,
                             Token_open_parenthesis)
    /\ UNCHANGED <<input, render_vars, lexer_vars, compiler_vars, solver_vars>>

Tokenizer_ParenthesisClose ==
    /\ Iterating("ParenthesisClose")
    /\ Tokenizer_balance_arm(parentheses_balance_checker - 1, scope_balance_checker,
                             Token_close_parenthesis)
    /\ UNCHANGED <<input, render_vars, lexer_vars, compiler_vars, solver_vars>>

Tokenizer_ScopeOpen ==
    /\ Iterating("ScopeOpen")
    /\ Tokenizer_balance_arm(parentheses_balance_checker, scope_balance_checker + 1,
                             Token_open_scope)
    /\ UNCHANGED <<input, render_vars, lexer_vars, compiler_vars, solver_vars>>

Tokenizer_ScopeClose ==
    /\ Iterating("ScopeClose")
    /\ Tokenizer_balance_arm(parentheses_balance_checker, scope_balance_checker - 1,
                             Token_close_scope)
    /\ UNCHANGED <<input, render_vars, lexer_vars, compiler_vars, solver_vars>>

Tokenizer_Separator ==
    /\ Iterating("Separator")
    /\ TokenizerBuilt(Tail(tk_chars), tk_current_token_string, Token_separator)
    /\ UNCHANGED <<input, render_vars, lexer_vars, compiler_vars, solver_vars>>

Tokenizer_EndOfStatement ==
    /\ Iterating("EndOfStatement")
    /\ TokenizerBuilt(Tail(tk_chars), tk_current_token_string, Token_end_of_statement)
    /\ UNCHANGED <<input, render_vars, lexer_vars, compiler_vars, solver_vars>>

\* After the loop: the pending token is pushed, then the checks.
Tokenizer_End ==
    /\ tk_result = "running" /\ tk_chars = <<>>
    /\ LET out == IF tk_current_state = "CompleteToken"
                  THEN Append(tk_output, tk_current_token) ELSE tk_output
       IN IF tk_current_state = "StringLiteral"
          THEN TokenizerFail("UnterminatedString")
          ELSE IF parentheses_balance_checker # 0
          THEN TokenizerReturn("UnbalancedParentheses", out)
          ELSE IF scope_balance_checker # 0
          THEN TokenizerReturn("UnbalancedScope", out)
          ELSE TokenizerReturn("ok", out)
    /\ UNCHANGED <<input, render_vars, lexer_vars, compiler_vars, solver_vars>>

----------------------------------------------------------------------------
(* Lexer::parse: one action per State::handle of states.rs.  The driver    *)
(* loop of src/lexer.rs calls the handler of the current state; a failure  *)
(* (the ? of the loop) ends the parse with no token queue returned.        *)

Lexed(s, cs, str, tok, dp, pb, sb, out) ==
    /\ state' = s
    /\ chars' = cs
    /\ current_token_string' = str
    /\ current_token' = tok
    /\ decimal_point_found' = dp
    /\ paren_balance_check' = pb
    /\ scope_balance_check' = sb
    /\ output' = out
    /\ lex_result' = "running"

\* Lexer::parse returns: "ok" for Ok(tmp.output()), else the failure.
LexReturn(result) ==
    /\ lex_result' = result
    /\ UNCHANGED <<chars, state, output, current_token_string, current_token,
                   decimal_point_found, paren_balance_check, scope_balance_check>>

LexFail(err) == LexReturn(err)

\* Moves to next_state, changing only the token text and the input position.
Scan(next_state, cs, str) ==
    Lexed(next_state, cs, str, current_token, decimal_point_found,
          paren_balance_check, scope_balance_check, output)

\* Moves to CompleteToken without storing the token just built.
Built_keeping_current_token(cs, tok) ==
    Lexed("CompleteToken", cs, current_token_string, current_token, decimal_point_found,
          paren_balance_check, scope_balance_check, output)

\* Moves to CompleteToken with the token just built.
Built(cs, tok) ==
    Lexed("CompleteToken", cs, current_token_string, tok, decimal_point_found,
          paren_balance_check, scope_balance_check, output)

Handling(s) == TokenizerReturned /\ lex_result = "running" /\ state = s

\* StartState::handle without the test of the empty input.
StartState_unchecked ==
    /\ Handling("StartState")
    /\ Scan("NewToken", chars, current_token_string)
    /\ UNCHANGED <<input, render_vars, tokenizer_vars, compiler_vars, solver_vars>>

StartState ==
    /\ Handling("StartState")
    /\ IF input = <<>>
       THEN LexFail("EmptyInput")
       ELSE Scan("NewToken", chars, current_token_string)
    /\ UNCHANGED <<input, render_vars, tokenizer_vars, compiler_vars, solver_vars>>

NewToken ==
    /\ Handling("NewToken")
    /\ IF chars # <<>>
       THEN LET c == Head(chars)
                next_state ==
                    IF c \in NUMERIC_DIGITS
                    THEN (IF c = "0" THEN "FancyNumericLiteral" ELSE "NumericLiteral")
                    ELSE IF c \in OPERATOR_CHARACTERS THEN "OperatorState"
                    ELSE IF c = "(" THEN "ParenthesisOpen"
                    ELSE IF c = ")" THEN "ParenthesisClose"
                    ELSE IF c = "{" THEN "ScopeOpen"
                    ELSE IF c = "}" THEN "ScopeClose"
                    ELSE IF c = "," THEN "Separator"
                    ELSE IF c = ";" THEN "EndOfStatement"
                    ELSE IF c = "\"" THEN "StringLiteral"
                    ELSE "SymbolName"
            IN IF OutOfTable(c) THEN LexFail("Panic")
               ELSE IF c \in WHITESPACE
               THEN Lexed("NewToken", Tail(chars), <<>>, Token_new, FALSE,
                          paren_balance_check, scope_balance_check, output)
               ELSE IF c = "0"
               THEN Lexed(next_state, Tail(chars), <<c>>, Token_new, FALSE,
                          paren_balance_check, scope_balance_check, output)
               ELSE IF next_state = "StringLiteral"
               THEN Lexed(next_state, Tail(chars), <<>>, Token_new, FALSE,
                          paren_balance_check, scope_balance_check, output)
               ELSE Lexed(next_state, chars, <<>>, Token_new, FALSE,
                          paren_balance_check, scope_balance_check, output)
       ELSE Lexed("EndState", chars, <<>>, Token_new, FALSE,
                  paren_balance_check, scope_balance_check, output)
    /\ UNCHANGED <<input, render_vars, tokenizer_vars, compiler_vars, solver_vars>>

\* CompleteToken::handle always handing over to NewToken.
CompleteToken_always_NewToken ==
    /\ Handling("CompleteToken")
    /\ IF Len(output) >= Len(input) + MaxSurplus
       THEN LexReturn("Spin")
       ELSE Lexed("NewToken", chars, current_token_string, current_token,
                  decimal_point_found, paren_balance_check, scope_balance_check,
                  Append(output, current_token))
    /\ UNCHANGED <<input, render_vars, tokenizer_vars, compiler_vars, solver_vars>>

CompleteToken ==
    /\ Handling("CompleteToken")
    /\ IF Len(output) >= Len(input) + MaxSurplus
       THEN LexReturn("Spin")
       ELSE Lexed(IF chars # <<>> THEN "NewToken" ELSE "EndState", chars,
                  current_token_string, current_token, decimal_point_found,
                  paren_balance_check, scope_balance_check,
                  Append(output, current_token))
    /\ UNCHANGED <<input, render_vars, tokenizer_vars, compiler_vars, solver_vars>>

NumericLiteral ==
    /\ Handling("NumericLiteral")
    /\ IF chars # <<>>
       THEN LET c == Head(chars)
            IN IF OutOfTable(c) THEN LexFail("Panic")
               ELSE IF c \in REAL_NUMERIC_DIGITS
               THEN IF c = "." /\ decimal_point_found
                    THEN LexFail("MalformedNumber")
                    ELSE Lexed("NumericLiteral", Tail(chars),
                               Append(current_token_string, c), current_token,
                               decimal_point_found \/ c = ".",
                               paren_balance_check, scope_balance_check, output)
               ELSE IF c \in SYMBOL_CHARACTERS
               THEN LexFail("MalformedNumber")
               ELSE Built(chars, Token_from_digits(current_token_string))
       ELSE Built(chars, Token_from_digits(current_token_string))
    /\ UNCHANGED <<input, render_vars, tokenizer_vars, compiler_vars, solver_vars>>

StringLiteral ==
    /\ Handling("StringLiteral")
    /\ IF chars # <<>>
       THEN IF Head(chars) # "\""
            THEN Scan("StringLiteral", Tail(chars), Append(current_token_string, Head(chars)))
            ELSE Built(Tail(chars), Token_from_str(current_token_string))
       ELSE LexFail("UnterminatedString")
    /\ UNCHANGED <<input, render_vars, tokenizer_vars, compiler_vars, solver_vars>>

SymbolName ==
    /\ Handling("SymbolName")
    /\ IF chars # <<>>
       THEN LET c == Head(chars)
            IN IF OutOfTable(c) THEN LexFail("Panic")
               ELSE IF c \in SYMBOL_CHARACTERS
               THEN Scan("SymbolName", Tail(chars), Append(current_token_string, c))
               ELSE Built(chars, Token_symbol(current_token_string))
       ELSE Built(chars, Token_symbol(current_token_string))
    /\ UNCHANGED <<input, render_vars, tokenizer_vars, compiler_vars, solver_vars>>

OperatorState ==
    /\ Handling("OperatorState")
    /\ IF chars # <<>>
       THEN LET c == Head(chars)
                tmp_op == Append(current_token_string, c)
                op == Operator_from(current_token_string)
            IN IF OutOfTable(c) THEN LexFail("Panic")
               ELSE IF c \in OPERATOR_CHARACTERS
               THEN IF Operator_from(tmp_op) # <<>>
                    THEN Scan("OperatorState", Tail(chars), tmp_op)
                    ELSE IF op # <<>>
                    THEN Built(chars, Token_from_operator(op[1]))
                    ELSE Scan("OperatorState", Tail(chars), tmp_op)
               ELSE IF op # <<>>
               THEN Built(chars, Token_from_operator(op[1]))
               ELSE LexFail("UnknownOperator")
       ELSE LexFail("DanglingOperator")
    /\ UNCHANGED <<input, render_vars, tokenizer_vars, compiler_vars, solver_vars>>

FancyNumericLiteral ==
    /\ Handling("FancyNumericLiteral")
    /\ IF chars # <<>>
       THEN LET c == Head(chars)
            IN IF c = "x"
               THEN Scan("HexNumericLiteral", Tail(chars), Append(current_token_string, c))
               ELSE IF c = "b"
               THEN Scan("BinaryNumericLiteral", Tail(chars), Append(current_token_string, c))
               ELSE IF OutOfTable(c) THEN LexFail("Panic")
               ELSE IF c \in REAL_NUMERIC_DIGITS
               THEN Scan("NumericLiteral", chars, current_token_string)
               ELSE LexFail("MalformedNumber")
       ELSE Built(chars, Token_from_digits(current_token_string))
    /\ UNCHANGED <<input, render_vars, tokenizer_vars, compiler_vars, solver_vars>>

\* fancy_numeric_handler, for the state that called it
fancy_numeric_handler(digits, self_state, token) ==
    IF chars # <<>>
    THEN LET c == Head(chars)
         IN IF OutOfTable(c) THEN LexFail("Panic")
            ELSE IF c \in digits
            THEN Scan(self_state, Tail(chars), Append(current_token_string, c))
            ELSE IF c \in SYMBOL_CHARACTERS \/ c = "."
            THEN LexFail("MalformedNumber")
            ELSE Built(chars, token)
    ELSE Built(chars, token)

BinaryNumericLiteral ==
    /\ Handling("BinaryNumericLiteral")
    /\ fancy_numeric_handler(BINARY_NUMERIC_DIGITS, "BinaryNumericLiteral",
                             Token_from_bin(current_token_string))
    /\ UNCHANGED <<input, render_vars, tokenizer_vars, compiler_vars, solver_vars>>

HexNumericLiteral ==
    /\ Handling("HexNumericLiteral")
    /\ fancy_numeric_handler(HEX_NUMERIC_DIGITS, "HexNumericLiteral",
                             Token_from_hex(current_token_string))
    /\ UNCHANGED <<input, render_vars, tokenizer_vars, compiler_vars, solver_vars>>

\* The width of the balance counters (u8).
U8Max == 255

\* single_character_handler with a balancer that leaves the counters pb, sb
single_character_handler(pb, sb, token) ==
    Lexed("CompleteToken", Tail(chars), current_token_string, token,
          decimal_point_found, pb, sb, output)

\* counter += 1 and counter -= 1 on a u8: past the range the addition panics
\* when the build checks overflow and wraps when it does not.
ParenthesisOpen ==
    /\ Handling("ParenthesisOpen")
    /\ \E overflow_checks \in BOOLEAN :
          IF paren_balance_check = U8Max /\ overflow_checks
          THEN LexFail("Panic")
          ELSE single_character_handler((paren_balance_check + 1) % (U8Max + 1),
                                        scope_balance_check, Token_open_parenthesis)
    /\ UNCHANGED <<input, render_vars, tokenizer_vars, compiler_vars, solver_vars>>

ParenthesisClose ==
    /\ Handling("ParenthesisClose")
    /\ \E overflow_checks \in BOOLEAN :
          IF paren_balance_check = 0 /\ overflow_checks
          THEN LexFail("Panic")
          ELSE single_character_handler((paren_balance_check + U8Max) % (U8Max + 1),
                                        scope_balance_check, Token_close_parenthesis)
    /\ UNCHANGED <<input, render_vars, tokenizer_vars, compiler_vars, solver_vars>>

ScopeOpen ==
    /\ Handling("ScopeOpen")
    /\ \E overflow_checks \in BOOLEAN :
          IF scope_balance_check = U8Max /\ overflow_checks
          THEN LexFail("Panic")
          ELSE single_character_handler(paren_balance_check,
                                        (scope_balance_check + 1) % (U8Max + 1),
                                        Token_open_scope)
    /\ UNCHANGED <<input, render_vars, tokenizer_vars, compiler_vars, solver_vars>>

ScopeClose ==
    /\ Handling("ScopeClose")
    /\ \E overflow_checks \in BOOLEAN :
          IF scope_balance_check = 0 /\ overflow_checks
          THEN LexFail("Panic")
          ELSE single_character_handler(paren_balance_check,
                                        (scope_balance_check + U8Max) % (U8Max + 1),
                                        Token_close_scope)
    /\ UNCHANGED <<input, render_vars, tokenizer_vars, compiler_vars, solver_vars>>

Separator ==
    /\ Handling("Separator")
    /\ single_character_handler(paren_balance_check, scope_balance_check, Token_separator)
    /\ UNCHANGED <<input, render_vars, tokenizer_vars, compiler_vars, solver_vars>>

EndOfStatement ==
    /\ Handling("EndOfStatement")
    /\ single_character_handler(paren_balance_check, scope_balance_check,
                                Token_end_of_statement)
    /\ UNCHANGED <<input, render_vars, tokenizer_vars, compiler_vars, solver_vars>>

\* EndState::handle, called once by the driver when is_final() answers true;
\* the driver then returns Ok(tmp.output()).
EndState ==
    /\ Handling("EndState")
    /\ IF paren_balance_check # 0 THEN LexFail("UnbalancedParentheses")
       ELSE IF scope_balance_check # 0 THEN LexFail("UnbalancedScope")
       ELSE LexReturn("ok")
    /\ UNCHANGED <<input, render_vars, tokenizer_vars, compiler_vars, solver_vars>>

----------------------------------------------------------------------------
(* Compiler::to_expression: one action per arm of the match on the kind of *)
(* the next token of the queue the lexer returned, and one for the end of  *)
(* the loop.                                                               *)

Last(stack) == stack[Len(stack)]

Pop(stack) == SubSeq(stack, 1, Len(stack) - 1)

\* The Operator arm's loop popping only operators of strictly greater
\* precedence.
RECURSIVE pop_strictly_higher_precedence(_, _, _)
pop_strictly_higher_precedence(stack, queue, o1) ==
    IF stack = <<>> THEN [stack |-> stack, rpn |-> queue, exit |-> "break"]
    ELSE LET o2 == Last(stack)
         IN IF o2.kind = "Operator"
            THEN IF o2.op.precedence > o1.precedence
                 THEN pop_strictly_higher_precedence(Pop(stack), Append(queue, o2), o1)
                 ELSE [stack |-> stack, rpn |-> queue, exit |-> "break"]
            ELSE IF o2.kind = "OpeningParenthesis"
            THEN [stack |-> stack, rpn |-> queue, exit |-> "break"]
            ELSE [stack |-> stack, rpn |-> queue, exit |-> "spin"]

\* The loop while let Some(o2) = self.operator_stack.last() of the Operator
\* arm.  exit is "break" when the loop ends and "spin" when the top of the
\* stack is neither an operator nor an opening parenthesis, which the loop
\* neither pops nor leaves.
RECURSIVE pop_higher_precedence(_, _, _)
pop_higher_precedence(stack, queue, o1) ==
    IF stack = <<>> THEN [stack |-> stack, rpn |-> queue, exit |-> "break"]
    ELSE LET o2 == Last(stack)
         IN IF o2.kind = "Operator"
            THEN IF o2.op.precedence >= o1.precedence
                 THEN pop_higher_precedence(Pop(stack), Append(queue, o2), o1)
                 ELSE [stack |-> stack, rpn |-> queue, exit |-> "break"]
            ELSE IF o2.kind = "OpeningParenthesis"
            THEN [stack |-> stack, rpn |-> queue, exit |-> "break"]
            ELSE [stack |-> stack, rpn |-> queue, exit |-> "spin"]

\* The loop of the ClosingParenthesis arm dropping the operators it pops.
RECURSIVE pop_to_opening_parenthesis_discarding(_, _)
pop_to_opening_parenthesis_discarding(stack, queue) ==
    IF stack = <<>> THEN [stack |-> stack, rpn |-> queue, exit |-> "break"]
    ELSE LET last == Last(stack)
         IN IF last.kind = "Operator"
            THEN pop_to_opening_parenthesis_discarding(Pop(stack), queue)
            ELSE IF last.kind = "OpeningParenthesis"
            THEN [stack |-> Pop(stack), rpn |-> queue, exit |-> "break"]
            ELSE IF last.kind = "Unknown"
            THEN [stack |-> stack, rpn |-> queue, exit |-> "unknown"]
            ELSE [stack |-> stack, rpn |-> queue, exit |-> "spin"]

\* The loop of the ClosingParenthesis arm; exit "unknown" is its return Err.
RECURSIVE pop_to_opening_parenthesis(_, _)
pop_to_opening_parenthesis(stack, queue) ==
    IF stack = <<>> THEN [stack |-> stack, rpn |-> queue, exit |-> "break"]
    ELSE LET last == Last(stack)
         IN IF last.kind = "Operator"
            THEN pop_to_opening_parenthesis(Pop(stack), Append(queue, last))
            ELSE IF last.kind = "OpeningParenthesis"
            THEN [stack |-> Pop(stack), rpn |-> queue, exit |-> "break"]
            ELSE IF last.kind = "Unknown"
            THEN [stack |-> stack, rpn |-> queue, exit |-> "unknown"]
            ELSE [stack |-> stack, rpn |-> queue, exit |-> "spin"]

\* The final loop while let Some(op) = self.operator_stack.pop().
RECURSIVE drain(_, _)
drain(stack, queue) ==
    IF stack = <<>> THEN queue ELSE drain(Pop(stack), Append(queue, Last(stack)))

Compiling == lex_result = "ok" /\ compile_result = "running"

HasToken == token_index <= Len(output)

Compiled(stack, previous, queue, result) ==
    /\ operator_stack' = stack
    /\ previous_token' = previous
    /\ rpn' = queue
    /\ compile_result' = result
    /\ token_index' = IF result = "running" THEN token_index + 1 ELSE token_index

CompileNumericLiteral ==
    /\ Compiling /\ HasToken
    /\ output[token_index].kind = "NumericLiteral"
    /\ LET token == output[token_index]
       IN Compiled(operator_stack, <<token>>, Append(rpn, token), "running")
    /\ UNCHANGED <<input, render_vars, tokenizer_vars, lexer_vars, solver_vars>>

CompileOperator ==
    /\ Compiling /\ HasToken
    /\ output[token_index].kind = "Operator"
    /\ LET token == output[token_index]
           o1 == correct_arity(token.op, previous_token)
           popped == pop_higher_precedence(operator_stack, rpn, o1)
           updated_token == update_kind(token, o1)
       IN IF popped.exit = "spin"
          THEN Compiled(popped.stack, previous_token, popped.rpn, "Spin")
          ELSE Compiled(Append(popped.stack, updated_token), <<updated_token>>,
                        popped.rpn, "running")
    /\ UNCHANGED <<input, render_vars, tokenizer_vars, lexer_vars, solver_vars>>

CompileOpeningParenthesis ==
    /\ Compiling /\ HasToken
    /\ output[token_index].kind = "OpeningParenthesis"
    /\ LET token == output[token_index]
       IN Compiled(Append(operator_stack, token), <<token>>, rpn, "running")
    /\ UNCHANGED <<input, render_vars, tokenizer_vars, lexer_vars, solver_vars>>

\* The ClosingParenthesis arm pushing its token as the OpeningParenthesis
\* arm does.
CompileClosingParenthesis_stacking ==
    /\ Compiling /\ HasToken
    /\ output[token_index].kind = "ClosingParenthesis"
    /\ LET token == output[token_index]
           popped == pop_to_opening_parenthesis(operator_stack, rpn)
       IN CASE popped.exit = "break" ->
                 Compiled(Append(popped.stack, token), <<token>>, popped.rpn, "running")
            [] popped.exit = "unknown" ->
                 Compiled(popped.stack, previous_token, popped.rpn, "MissedParsingError")
            [] popped.exit = "spin" ->
                 Compiled(popped.stack, previous_token, popped.rpn, "Spin")
    /\ UNCHANGED <<input, render_vars, tokenizer_vars, lexer_vars, solver_vars>>

CompileClosingParenthesis ==
    /\ Compiling /\ HasToken
    /\ output[token_index].kind = "ClosingParenthesis"
    /\ LET token == output[token_index]
           popped == pop_to_opening_parenthesis(operator_stack, rpn)
       IN CASE popped.exit = "break" ->
                 Compiled(popped.stack, <<token>>, popped.rpn, "running")
            [] popped.exit = "unknown" ->
                 Compiled(popped.stack, previous_token, popped.rpn, "MissedParsingError")
            [] popped.exit = "spin" ->
                 Compiled(popped.stack, previous_token, popped.rpn, "Spin")
    /\ UNCHANGED <<input, render_vars, tokenizer_vars, lexer_vars, solver_vars>>

\* The rejecting arms with the separator let through as if it were blank.
CompileRejected_ignoring_separator ==
    /\ Compiling /\ HasToken
    /\ output[token_index].kind \in
          {"OpeningScope", "ClosingScope", "Symbol", "Separator", "StringLiteral",
           "EndOfStatement", "Keyword", "Unknown"}
    /\ Compiled(operator_stack, previous_token, rpn,
                IF output[token_index].kind = "Unknown" THEN "MissedParsingError"
                ELSE IF output[token_index].kind = "Separator" THEN "running"
                ELSE "UnsupportedToken")
    /\ UNCHANGED <<input, render_vars, tokenizer_vars, lexer_vars, solver_vars>>

\* The arms that return Err: "This is not handled yet!" for the kinds the
\* compiler does not support, "Somehow we missed a parsing error here" for
\* TokenKind::Unknown.
CompileRejected ==
    /\ Compiling /\ HasToken
    /\ output[token_index].kind \in
          {"OpeningScope", "ClosingScope", "Symbol", "Separator", "StringLiteral",
           "EndOfStatement", "Keyword", "Unknown"}
    /\ Compiled(operator_stack, previous_token, rpn,
                IF output[token_index].kind = "Unknown"
                THEN "MissedParsingError" ELSE "UnsupportedToken")
    /\ UNCHANGED <<input, render_vars, tokenizer_vars, lexer_vars, solver_vars>>

\* After the last token: drain the operator stack, Ok(Expression::new(rpn)).
CompileFinish ==
    /\ Compiling /\ ~HasToken
    /\ operator_stack' = <<>>
    /\ rpn' = drain(operator_stack, rpn)
    /\ compile_result' = "ok"
    /\ UNCHANGED <<token_index, previous_token>>
    /\ UNCHANGED <<input, render_vars, tokenizer_vars, lexer_vars, solver_vars>>

----------------------------------------------------------------------------
(* Expression::solve: one action per arm of the match on the kind of the   *)
(* next postfix token, and one for the return.                             *)

Solving == compile_result = "ok" /\ solve_result = "running"

HasPostfixToken == rpn_index <= Len(rpn)

Solved(stack, result) ==
    /\ solve_stack' = stack
    /\ solve_result' = result
    /\ rpn_index' = IF result = "running" THEN rpn_index + 1 ELSE rpn_index
    /\ UNCHANGED solution

SolveNumericLiteral ==
    /\ Solving /\ HasPostfixToken
    /\ rpn[rpn_index].kind = "NumericLiteral"
    /\ LET token == rpn[rpn_index]
       IN IF token.value = <<>>
          THEN Solved(solve_stack, "Panic")
          ELSE Solved(Append(solve_stack, token.value[1]), "running")
    /\ UNCHANGED <<input, render_vars, tokenizer_vars, lexer_vars, compiler_vars>>

\* The binary arm taking the first value popped as the left operand.
SolveBinaryOperator_swapped ==
    /\ Solving /\ HasPostfixToken
    /\ rpn[rpn_index].kind = "Operator" /\ rpn[rpn_index].op.arity = 2
    /\ LET operator == rpn[rpn_index].op
       IN IF Len(solve_stack) < 2
          THEN Solved(<<>>, "MalformedExpression")
          ELSE LET left == Last(solve_stack)
                   right == Last(Pop(solve_stack))
               IN Solved(Append(Pop(Pop(solve_stack)), compute_2(operator, left, right)),
                         "running")
    /\ UNCHANGED <<input, render_vars, tokenizer_vars, lexer_vars, compiler_vars>>

SolveBinaryOperator ==
    /\ Solving /\ HasPostfixToken
    /\ rpn[rpn_index].kind = "Operator" /\ rpn[rpn_index].op.arity = 2
    /\ LET operator == rpn[rpn_index].op
       IN IF Len(solve_stack) < 2
          THEN Solved(<<>>, "MalformedExpression")
          ELSE LET right == Last(solve_stack)
                   left == Last(Pop(solve_stack))
               IN Solved(Append(Pop(Pop(solve_stack)), compute_2(operator, left, right)),
                         "running")
    /\ UNCHANGED <<input, render_vars, tokenizer_vars, lexer_vars, compiler_vars>>

SolveUnaryOperator ==
    /\ Solving /\ HasPostfixToken
    /\ rpn[rpn_index].kind = "Operator" /\ rpn[rpn_index].op.arity = 1
    /\ LET operator == rpn[rpn_index].op
       IN IF solve_stack = <<>>
          THEN Solved(solve_stack, "MalformedExpression")
          ELSE Solved(Append(Pop(solve_stack), compute_1(operator, Last(solve_stack))),
                      "running")
    /\ UNCHANGED <<input, render_vars, tokenizer_vars, lexer_vars, compiler_vars>>

\* The arm _ => {}, and an operator whose arity is neither 1 nor 2.
SolveOtherToken ==
    /\ Solving /\ HasPostfixToken
    /\ IF rpn[rpn_index].kind = "Operator"
       THEN rpn[rpn_index].op.arity \notin {1, 2}
       ELSE rpn[rpn_index].kind # "NumericLiteral"
    /\ Solved(solve_stack, "running")
    /\ UNCHANGED <<input, render_vars, tokenizer_vars, lexer_vars, compiler_vars>>

\* Ok(solve_stack.pop().unwrap())
SolveReturn ==
    /\ Solving /\ ~HasPostfixToken
    /\ IF solve_stack = <<>>
       THEN /\ solve_result' = "Panic"
            /\ UNCHANGED <<solve_stack, solution>>
       ELSE /\ solve_result' = "ok"
            /\ solution' = <<Last(solve_stack)>>
            /\ solve_stack' = Pop(solve_stack)
    /\ UNCHANGED rpn_index
    /\ UNCHANGED <<input, render_vars, tokenizer_vars, lexer_vars, compiler_vars>>

----------------------------------------------------------------------------
(* The renderings of an Expression, src/solver.rs.                         *)

\* format!("{left}{operator}{right}")
Combination_tight(left, operator, right) ==
    left \o OperatorKind_to_string(operator.kind) \o right

\* format!("{left} {operator} {right}")
Combination(left, operator, right) ==
    left \o <<" ">> \o OperatorKind_to_string(operator.kind) \o <<" ">> \o right

\* The loop of display_infix from the i-th postfix token on, and its return.
RECURSIVE display_infix(_, _, _)
display_infix(queue, i, work_stack) ==
    IF i > Len(queue)
    THEN IF work_stack = <<>> THEN [result |-> "Panic", text |-> <<>>]
         ELSE [result |-> "ok", text |-> Last(work_stack)]
    ELSE LET token == queue[i]
             operator == token.op
         IN IF token.kind = "NumericLiteral"
            THEN display_infix(queue, i + 1, Append(work_stack, token.id))
            ELSE IF token.kind = "Operator" /\ operator.arity = 2
            THEN IF Len(work_stack) < 2
                 THEN [result |-> "MalformedExpression", text |-> <<>>]
                 ELSE LET right == Last(work_stack)
                          left == Last(Pop(work_stack))
                          rest == Pop(Pop(work_stack))
                      IN IF i = Len(queue)
                         THEN display_infix(queue, i + 1,
                                  Append(rest, Combination(left, operator, right)))
                         ELSE display_infix(queue, i + 1,
                                  Append(rest, <<"(">> \o Combination(left, operator, right)
                                               \o <<")">>))
            ELSE IF token.kind = "Operator" /\ operator.arity = 1
            THEN IF work_stack = <<>>
                 THEN [result |-> "MalformedExpression", text |-> <<>>]
                 ELSE display_infix(queue, i + 1,
                          Append(Pop(work_stack),
                                 OperatorKind_to_string(operator.kind) \o Last(work_stack)))
            ELSE display_infix(queue, i + 1, work_stack)

\* The fold of display_postfix over the tokens from the i-th on.
RECURSIVE display_postfix(_, _, _)
display_postfix(queue, i, acc) ==
    IF i > Len(queue) THEN acc
    ELSE display_postfix(queue, i + 1,
                         (IF acc # <<>> THEN Append(acc, " ") ELSE acc) \o queue[i].id)

\* display_infix answering Ok with an empty text where an operand is missing.
DisplayInfix_ignoring_missing_operand ==
    /\ compile_result = "ok" /\ solve_result # "running" /\ infix_result = "running"
    /\ LET shown == display_infix(rpn, 1, <<>>)
       IN /\ infix_result' = (IF shown.result = "MalformedExpression" THEN "ok"
                              ELSE shown.result)
          /\ infix_text' = shown.text
    /\ UNCHANGED <<input, retokenized, tokenizer_vars, lexer_vars, compiler_vars, solver_vars>>

\* Expression::display_infix on the compiled expression, once solve is over.
DisplayInfix ==
    /\ compile_result = "ok" /\ solve_result # "running" /\ infix_result = "running"
    /\ LET shown == display_infix(rpn, 1, <<>>)
       IN /\ infix_result' = shown.result
          /\ infix_text' = shown.text
    /\ UNCHANGED <<input, retokenized, tokenizer_vars, lexer_vars, compiler_vars, solver_vars>>

\* The postfix rendering of a compiled expression is given to the pipeline
\* as a new text, once solve and display_infix are over: Tokenizer::new,
\* Lexer::new and the initial values of the compiler and the solver, as in
\* Init.
Retokenize ==
    /\ compile_result = "ok" /\ solve_result # "running" /\ infix_result # "running"
    /\ ~retokenized
    /\ retokenized' = TRUE
    /\ input' = display_postfix(rpn, 1, <<>>)
    /\ tk_current_state' = "NewToken"
    /\ tk_chars' = input'
    /\ tk_output' = <<>>
    /\ tk_current_token_string' = <<>>
    /\ tk_current_token' = Token_new
    /\ tk_decimal_point_found' = FALSE
    /\ parentheses_balance_checker' = 0
    /\ scope_balance_checker' = 0
    /\ tk_result' = "start"
    /\ chars' = input'
    /\ state' = "StartState"
    /\ output' = <<>>
    /\ current_token_string' = <<>>
    /\ current_token' = Token_new
    /\ decimal_point_found' = FALSE
    /\ paren_balance_check' = 0
    /\ scope_balance_check' = 0
    /\ lex_result' = "running"
    /\ token_index' = 1
    /\ operator_stack' = <<>>
    /\ previous_token' = <<>>
    /\ rpn' = <<>>
    /\ compile_result' = "running"
    /\ rpn_index' = 1
    /\ solve_stack' = <<>>
    /\ solve_result' = "running"
    /\ solution' = <<>>
    /\ infix_result' = "running"
    /\ infix_text' = <<>>

----------------------------------------------------------------------------
(* The explored input texts.                                               *)

DigitChars == <<"1", "2", "3", "4", "5", "6", "7", "8", "9">>

ArithmeticSpellings == {"+", "-", "*", "/"}

ComparisonSpellings ==
    {<<"=", "=">>, <<"!", "=">>, <<">">>, <<">", "=">>, <<"<">>, <<"<", "=">>}

BinarySpellings ==
    {<<"+">>, <<"-">>, <<"*">>, <<"/">>, <<"^">>, <<"*", "*">>, <<"&", "&">>, <<"|", "|">>}
    \cup ComparisonSpellings

PrefixSpellings == {<<"+">>, <<"-">>, <<"!">>}

\* The well-formed expressions E ::= digit | ( E ) | E binop E, binop one of
\* + - * /, with exactly k binary operators and parenthesis pairs together.
RECURSIVE Expressions(_)
Expressions(k) ==
    IF k = 0 THEN {<<DigitChars[i]>> : i \in 1..MaxDigit}
    ELSE {<<"(">> \o e \o <<")">> : e \in Expressions(k - 1)}
         \cup UNION {{a \o <<op>> \o b : a \in Expressions(i), b \in Expressions(k - 1 - i),
                                         op \in ArithmeticSpellings} : i \in 0..(k - 1)}

GeneratedExpressions == UNION {Expressions(k) : k \in 0..MaxNodes}

\* a rel b for every comparison spelling, written tight and spaced.
Comparisons ==
    UNION {{<<DigitChars[a]>> \o rel \o <<DigitChars[b]>>,
            <<DigitChars[a], " ">> \o rel \o <<" ", DigitChars[b]>>} :
           a \in 1..MaxDigit, b \in 1..MaxDigit, rel \in ComparisonSpellings}

\* Two operators of the catalog in one expression: 1 op 2 op 3, prefix then
\* binary, binary then prefix, and two prefixes.
OperatorPairs ==
    {<<"1", " ">> \o o1 \o <<" ", "2", " ">> \o o2 \o <<" ", "3">> :
        o1 \in BinarySpellings, o2 \in BinarySpellings}
    \cup {u \o <<"2", " ">> \o o \o <<" ", "3">> : u \in PrefixSpellings, o \in BinarySpellings}
    \cup {<<"2", " ">> \o o \o <<" ">> \o u \o <<"3">> : u \in PrefixSpellings, o \in BinarySpellings}
    \cup {u1 \o u2 \o <<"5">> : u1 \in PrefixSpellings, u2 \in PrefixSpellings}

RawAlphabet == {"3", "+", " ", "(", ")", "{", "}"}

RECURSIVE Texts(_, _)
Texts(alphabet, len) ==
    IF len = 0 THEN {<<>>}
    ELSE {Append(t, c) : t \in Texts(alphabet, len - 1), c \in alphabet}

RawTexts == UNION {Texts(RawAlphabet, len) : len \in 0..MaxRawLen}

SingleDigits == {<<c>> : c \in NUMERIC_DIGITS}

Examples ==
    {<<"2", "+", "3", "*", "4">>,
     <<"3", " ", "+", " ", "4", " ", "*", " ", "2">>,
     <<"(", "3", " ", "+", " ", "4", ")", " ", "*", " ", "2">>,
     <<"-", "3", " ", "+", " ", "5">>,
     <<"2", " ", "*", "*", " ", "3">>,
     <<"1", " ", "=", "=", " ", "1">>,
     <<"!", "(", "1", " ", "=", "=", " ", "2", ")">>,
     <<"-", "5">>,
     <<"(", "-", "5", ")">>,
     <<"3", "-", "5">>,
     <<"3", "-", "(", "-", "5", ")">>,
     <<"2", "^", "3", "^", "2">>,
     <<"8", "-", "3", "-", "2">>,
     <<"3", " ", "+">>,
     <<"3", " ", "+", " ">>,
     <<"(", "1", "+", "2", ")">>,
     <<"(", "1", "+", "2">>,
     <<"{", "1", "}">>,
     <<"(", "{">>,
     <<"3", " ", "4">>,
     <<"2", "*", "-", "3">>,
     <<"-", "2", "^", "2">>,
     <<"!", "2", "^", "3">>,
     <<"\"", "h", "i", "\"">>,
     <<"\"", "h", "i">>,
     <<"x", "1">>,
     <<"0", "x", "1", "F">>,
     <<"0", "b", "1", "0", "1">>,
     <<"0">>,
     <<"0", ".", "5">>,
     <<"1", "2", ".", "3", "4">>,
     <<"1", ".", "2", ".", "3">>,
     <<"1", "a">>,
     <<"1", ",", "2", ";">>,
     <<"1", " ", "=", " ", "2">>,
     <<"9", "/", "3", "/", "3">>,
     <<"2", "-", "3", "+", "4">>,
     <<"6", "/", "(", "1", "-", "1", ")">>,
     <<"7", "*", "(", "5", "-", "6", ")">>}

\* Texts around numeric literals: digits, the decimal point, the prefixes x
\* and b, a hexadecimal letter, an operator, a blank, and a character whose
\* code point is past the classifier tables.
NumberAlphabet == {"0", "1", "9", ".", "x", "b", "f", "+", " ", "U+03C0"}

NumberTexts == UNION {Texts(NumberAlphabet, len) : len \in 0..MaxNumberLen}

Repeat(c, n) == [i \in 1..n |-> c]

\* Literals at and past the width of a u64, and characters of no class.
LexicalExamples ==
    {<<"0", "x", "F", "F">>,
     <<"0", "x", "f", "f", " ">>,
     <<"0", "b", "1", "0", "1", " ">>,
     <<"1", "2", "3">>,
     <<"0", "x">> \o Repeat("0", U64HexDigits) \o <<"1">>,
     <<"0", "x", "1">> \o Repeat("0", U64HexDigits),
     <<"0", "b">> \o Repeat("0", U64BinDigits) \o <<"1">>,
     <<"0", "b", "1">> \o Repeat("0", U64BinDigits),
     <<"0", "b", "2">>,
     <<"0", "x", "1", "g">>,
     <<"1", "_">>,
     <<"3", " ", "[", " ", "4">>,
     <<"a", ".", "b">>,
     <<"x", ":">>,
     <<"'">>,
     <<"{", "x", ",", "\"", "s", "\"", ";", "}">>,
     <<"(", "1", ",", "2", ")">>,
     <<"1", "+", "x">>,
     <<"1", ")", "+", "2">>,
     <<"1", "+", "2", ")">>,
     <<"1", ")", ")">>,
     <<"1", ")", "+", "(", "2">>,
     <<"(", "0", ")">>,
     <<"(", "1", ")">>,
     <<"3", " ", "U+20AC">>}

\* The spellings of two characters of Operator::from.
TwoCharacterSpellings ==
    {<<"*", "*">>, <<"&", "&">>, <<"|", "|">>, <<"=", "=">>, <<"!", "=">>, <<">", "=">>,
     <<"<", "=">>}

\* Runs of operator characters that are no spelling of Operator::from.
UnknownRuns == {<<"=">>, <<"$">>, <<"=", "-">>, <<"&">>, <<"=", "=", "=">>, <<"<", ">">>}

\* Operator runs between two literals, tight and spaced, and before a
\* character past the classifier tables.
OperatorTexts ==
    UNION {{<<"1">> \o run \o <<"2">>, <<"1", " ">> \o run \o <<" ", "2">>,
            <<"1">> \o run \o <<"U+03C0">>} : run \in TwoCharacterSpellings \cup UnknownRuns}

Inputs ==
    GeneratedExpressions \cup Comparisons \cup OperatorPairs \cup RawTexts
    \cup SingleDigits \cup Examples \cup NumberTexts \cup LexicalExamples
    \cup OperatorTexts

----------------------------------------------------------------------------
(* The pipeline: TemporaryData::new and Compiler::new give the initial     *)
(* state; the lexer runs to its result, then the compiler, then solve.     *)

Init ==
    /\ input \in Inputs
    /\ tk_current_state = "NewToken"
    /\ tk_chars = input
    /\ tk_output = <<>>
    /\ tk_current_token_string = <<>>
    /\ tk_current_token = Token_new
    /\ tk_decimal_point_found = FALSE
    /\ parentheses_balance_checker = 0
    /\ scope_balance_checker = 0
    /\ tk_result = "start"
    /\ chars = input
    /\ state = "StartState"
    /\ output = <<>>
    /\ current_token_string = <<>>
    /\ current_token = Token_new
    /\ decimal_point_found = FALSE
    /\ paren_balance_check = 0
    /\ scope_balance_check = 0
    /\ lex_result = "running"
    /\ token_index = 1
    /\ operator_stack = <<>>
    /\ previous_token = <<>>
    /\ rpn = <<>>
    /\ compile_result = "running"
    /\ rpn_index = 1
    /\ solve_stack = <<>>
    /\ solve_result = "running"
    /\ solution = <<>>
    /\ infix_result = "running"
    /\ infix_text = <<>>
    /\ retokenized = FALSE

Next ==
    \/ Tokenizer_Start
    \/ Tokenizer_NewToken
    \/ Tokenizer_CompleteToken
    \/ Tokenizer_NumericLiteral
    \/ Tokenizer_StringLiteral
    \/ Tokenizer_SymbolName
    \/ Tokenizer_Operator
    \/ Tokenizer_FancyNumericLiteral
    \/ Tokenizer_BinaryNumericLiteral
    \/ Tokenizer_HexNumericLiteral
    \/ Tokenizer_ParenthesisOpen
    \/ Tokenizer_ParenthesisClose
    \/ Tokenizer_ScopeOpen
    \/ Tokenizer_ScopeClose
    \/ Tokenizer_Separator
    \/ Tokenizer_EndOfStatement
    \/ Tokenizer_End
    \/ StartState
    \/ NewToken
    \/ CompleteToken
    \/ NumericLiteral
    \/ StringLiteral
    \/ SymbolName
    \/ OperatorState
    \/ FancyNumericLiteral
    \/ BinaryNumericLiteral
    \/ HexNumericLiteral
    \/ ParenthesisOpen
    \/ ParenthesisClose
    \/ ScopeOpen
    \/ ScopeClose
    \/ Separator
    \/ EndOfStatement
    \/ EndState
    \/ CompileNumericLiteral
    \/ CompileOperator
    \/ CompileOpeningParenthesis
    \/ CompileClosingParenthesis
    \/ CompileRejected
    \/ CompileFinish
    \/ SolveNumericLiteral
    \/ SolveBinaryOperator
    \/ SolveUnaryOperator
    \/ SolveOtherToken
    \/ DisplayInfix
    \/ Retokenize
    \/ SolveReturn

Spec == Init /\ [][Next]_vars

----------------------------------------------------------------------------
(* Reference semantics of infix text, by recursive descent and independent *)
(* of the compiler:                                                        *)
(*    Sum     ::= Product (("+" | "-") Product)*                          *)
(*    Product ::= Primary (("*" | "/") Primary)*                          *)
(*    Primary ::= "1" .. "9" | "(" Sum ")"                                *)
(* with blanks allowed between the symbols.  A parse answers [ok, value,   *)
(* next], next being the position after what it read.                      *)

Literals1to9 == {DigitChars[i] : i \in 1..9}

RECURSIVE SkipBlanks(_, _)
SkipBlanks(text, i) ==
    IF i <= Len(text) /\ text[i] = " " THEN SkipBlanks(text, i + 1) ELSE i

At(text, i) == IF i <= Len(text) THEN text[i] ELSE "end"

NoParse == [ok |-> FALSE, value |-> NaN, next |-> 0]

RECURSIVE RefSum(_, _)
RECURSIVE RefSumRest(_, _, _)
RECURSIVE RefProduct(_, _)
RECURSIVE RefProductRest(_, _, _)
RECURSIVE RefPrimary(_, _)

RefPrimary(text, at) ==
    LET i == SkipBlanks(text, at)
        c == At(text, i)
    IN IF c \in Literals1to9
       THEN [ok |-> TRUE, value |-> Int2F64(DigitValue(c)), next |-> i + 1]
       ELSE IF c = "("
       THEN LET inner == RefSum(text, i + 1)
                close == SkipBlanks(text, inner.next)
            IN IF inner.ok /\ At(text, close) = ")"
               THEN [ok |-> TRUE, value |-> inner.value, next |-> close + 1]
               ELSE NoParse
       ELSE NoParse

RefProductRest(text, at, left) ==
    LET i == SkipBlanks(text, at)
        c == At(text, i)
    IN IF c \in {"*", "/"}
       THEN LET right == RefPrimary(text, i + 1)
            IN IF right.ok
               THEN RefProductRest(text, right.next,
                                   IF c = "*" THEN F64Mul(left, right.value)
                                   ELSE F64Div(left, right.value))
               ELSE NoParse
       ELSE [ok |-> TRUE, value |-> left, next |-> at]

RefProduct(text, at) ==
    LET first == RefPrimary(text, at)
    IN IF first.ok THEN RefProductRest(text, first.next, first.value) ELSE NoParse

RefSumRest(text, at, left) ==
    LET i == SkipBlanks(text, at)
        c == At(text, i)
    IN IF c \in {"+", "-"}
       THEN LET right == RefProduct(text, i + 1)
            IN IF right.ok
               THEN RefSumRest(text, right.next,
                               IF c = "+" THEN F64Add(left, right.value)
                               ELSE F64Sub(left, right.value))
               ELSE NoParse
       ELSE [ok |-> TRUE, value |-> left, next |-> at]

RefSum(text, at) ==
    LET first == RefProduct(text, at)
    IN IF first.ok THEN RefSumRest(text, first.next, first.value) ELSE NoParse

\* The text is one well-formed expression, and nothing else.
WellFormed(text) ==
    LET parse == RefSum(text, 1)
    IN parse.ok /\ SkipBlanks(text, parse.next) = Len(text) + 1

RefValue(text) == RefSum(text, 1).value

----------------------------------------------------------------------------
(* Properties.                                                             *)

LexReturned == lex_result # "running"

\* The pipeline has returned: a stage failed or solve returned.
Finished ==
    \/ lex_result \notin {"running", "ok"}
    \/ compile_result \notin {"running", "ok"}
    \/ solve_result # "running"

NoFailure ==
    /\ lex_result \in {"running", "ok"}
    /\ compile_result \in {"running", "ok"}
    /\ solve_result \in {"running", "ok"}

ReturnsValue(i) == solve_result = "ok" /\ solution = <<Int2F64(i)>>

\* C1: every well-formed infix expression over the literals 1..9, the binary
\* operators + - * / and parentheses goes through Lexer::parse,
\* Compiler::to_expression and Expression::solve without a failure, and solve
\* returns the value of the expression under conventional precedence;
\* "2+3*4" gives 14, "3 + 4 * 2" gives 11, "(3 + 4) * 2" gives 14,
\* "-3 + 5" gives 2 and "2 ** 3" gives 8.
C1_ConventionalPrecedence ==
    /\ WellFormed(input) =>
          /\ NoFailure
          /\ solve_result = "ok" => solution = <<RefValue(input)>>
          /\ solve_result = "ok" \/ ENABLED Next
    /\ Finished =>
          /\ input = <<"2", "+", "3", "*", "4">> => ReturnsValue(14)
          /\ input = <<"3", " ", "+", " ", "4", " ", "*", " ", "2">> => ReturnsValue(11)
          /\ input = <<"(", "3", " ", "+", " ", "4", ")", " ", "*", " ", "2">> => ReturnsValue(14)
          /\ input = <<"-", "3", " ", "+", " ", "5">> => ReturnsValue(2)
          /\ input = <<"2", " ", "*", "*", " ", "3">> => ReturnsValue(8)

\* A well-formed expression in which precedence and parentheses both decide
\* the value has been solved.
C1_Witness ==
    /\ input = <<"7", "*", "(", "5", "-", "6", ")">>
    /\ WellFormed(input)
    /\ ReturnsValue(-7)

\* The f64 that solve returns stands for true when it is a number other than zero.
IsTrue(v) == ~IsZero(v) /\ ~IsNaN(v)

RelationHolds(rel, a, b) ==
    CASE rel = <<"=", "=">> -> a = b
      [] rel = <<"!", "=">> -> a # b
      [] rel = <<">">> -> a > b
      [] rel = <<">", "=">> -> a >= b
      [] rel = <<"<">> -> a < b
      [] rel = <<"<", "=">> -> a <= b

\* C2: a comparison or logical expression evaluated through the pipeline
\* yields its truth value: "1 == 1" and "!(1 == 2)" evaluate to true, and
\* "a rel b" evaluates to true exactly when the relation holds.
C2_ComparisonTruth ==
    Finished =>
       /\ input \in {<<"1", " ", "=", "=", " ", "1">>, <<"!", "(", "1", " ", "=", "=", " ", "2", ")">>} => solve_result = "ok" /\ IsTrue(solution[1])
       /\ \A a \in 1..MaxDigit, b \in 1..MaxDigit, rel \in ComparisonSpellings :
             input \in {<<DigitChars[a]>> \o rel \o <<DigitChars[b]>>,
                        <<DigitChars[a], " ">> \o rel \o <<" ", DigitChars[b]>>}
             => /\ solve_result = "ok"
                /\ IsTrue(solution[1]) <=> RelationHolds(rel, a, b)

\* C3: after to_expression has processed an operator token, the token it
\* pushed and remembered is Negate / Positive with arity 1 when the token is
\* '-' / '+' and the token before it in the queue is neither a
\* NumericLiteral nor a ClosingParenthesis (or there is none), Difference /
\* Sum with arity 2 when it is one of these, and carries the operator of the
\* input token unchanged for every other spelling.
C3_ArityResolution ==
    (lex_result = "ok" /\ compile_result \in {"running", "ok"} /\ token_index > 1
     /\ output[token_index - 1].kind = "Operator") =>
       LET i == token_index - 1
           token == output[i]
           after_operand == i > 1 /\ output[i - 1].kind \in {"NumericLiteral",
                                                             "ClosingParenthesis"}
           resolved == previous_token[1]
       IN /\ previous_token # <<>>
          /\ resolved.kind = "Operator" /\ resolved.id = token.id
          /\ compile_result = "running" => Last(operator_stack) = resolved
          /\ IF token.id = <<"-">>
             THEN IF after_operand
                  THEN resolved.op.kind = "Difference" /\ resolved.op.arity = 2
                  ELSE resolved.op.kind = "Negate" /\ resolved.op.arity = 1
             ELSE IF token.id = <<"+">>
             THEN IF after_operand
                  THEN resolved.op.kind = "Sum" /\ resolved.op.arity = 2
                  ELSE resolved.op.kind = "Positive" /\ resolved.op.arity = 1
             ELSE resolved.op = token.op
          /\ input = <<"-", "5">> => resolved.op.kind = "Negate"
          /\ input = <<"(", "-", "5", ")">> => resolved.op.kind = "Negate"
          /\ input = <<"3", "-", "5">> => resolved.op.kind = "Difference"
          /\ input = <<"3", "-", "(", "-", "5", ")">> =>
                resolved.op.kind = (IF i = 2 THEN "Difference" ELSE "Negate")

\* In "3-(-5)" the first '-' was resolved binary and the second unary.
C3_Witness ==
    /\ input = <<"3", "-", "(", "-", "5", ")">>
    /\ compile_result = "ok"
    /\ [i \in 1..Len(rpn) |-> rpn[i].op.kind] = <<"None", "None", "Negate", "Difference">>

\* The operators held by the tokens of the lexer's output, of the operator
\* stack and of the postfix queue.
OperatorsOf(tokens) == {tokens[i].op : i \in {j \in 1..Len(tokens) : tokens[j].kind = "Operator"}}

OperatorsInUse == OperatorsOf(output) \cup OperatorsOf(operator_stack) \cup OperatorsOf(rpn)

PrecedenceClass(op) ==
    CASE op.kind = "Exp" -> "exponent"
      [] op.kind \in {"Negate", "Positive", "LogicalNot"} -> "unary"
      [] op.kind \in {"Product", "Quotient"} -> "multiplicative"
      [] op.kind \in {"LogicalAnd", "LogicalOr"} -> "logical"
      [] op.kind \in {"Sum", "Difference"} -> "additive"
      [] OTHER -> "comparison"

\* Every operator in use of class high has a precedence above (strictly, or
\* at least equal to) that of every operator in use of class low.
Above(high, low, strictly) ==
    \A o1 \in OperatorsInUse, o2 \in OperatorsInUse :
       (PrecedenceClass(o1) = high /\ PrecedenceClass(o2) = low) =>
          IF strictly THEN o1.precedence > o2.precedence
          ELSE o1.precedence >= o2.precedence

\* C4 as claimed: exponent > unary > multiplicative >= logical binary >
\* additive > comparison/equality.
C4_ClaimedOrder ==
    /\ Above("exponent", "unary", TRUE)
    /\ Above("unary", "multiplicative", TRUE)
    /\ Above("multiplicative", "logical", FALSE)
    /\ Above("logical", "additive", TRUE)
    /\ Above("additive", "comparison", TRUE)

\* C4, amended: the precedences that Operator::from and correct_arity assign
\* are ordered unary >= exponent > multiplicative >= logical binary >
\* additive > comparison/equality.
C4_PrecedenceOrder ==
    /\ Above("unary", "exponent", FALSE)
    /\ Above("exponent", "multiplicative", TRUE)
    /\ Above("multiplicative", "logical", FALSE)
    /\ Above("logical", "additive", TRUE)
    /\ Above("additive", "comparison", TRUE)

\* A compiled expression holds a unary operator made by correct_arity next to
\* an exponent made by Operator::from.
C4_Witness ==
    /\ compile_result = "ok"
    /\ \E o1 \in OperatorsOf(rpn), o2 \in OperatorsOf(rpn) :
          o1.kind = "Negate" /\ o2.kind = "Exp"

\* C5: every unary operator has a precedence strictly greater than that of
\* every binary operator.
C5_UnaryAboveBinary ==
    \A o1 \in OperatorsInUse, o2 \in OperatorsInUse :
       (o1.arity = 1 /\ o2.arity = 2) => o1.precedence > o2.precedence

\* What an Operator step of to_expression pops, in the order it pops it.
PoppedBy(kept) ==
    [j \in 1..(Len(operator_stack) - kept) |-> operator_stack[Len(operator_stack) + 1 - j]]

\* C6: an Operator step of to_expression moves to the output exactly the
\* operators on top of the stack whose precedence is greater than or equal
\* to that of the arity-corrected incoming operator, stops at an opening
\* parenthesis or at the bottom of the stack, and then pushes the incoming
\* operator; so "2^3^2" evaluates to 64 and "8-3-2" to 3.
C6_PopWhileNotLower ==
    [][/\ (Compiling /\ HasToken /\ output[token_index].kind = "Operator") =>
             LET kept == Len(operator_stack') - 1
                 incoming == Last(operator_stack')
                 popped == PoppedBy(kept)
             IN /\ compile_result' = "running"
                /\ kept >= 0 /\ kept <= Len(operator_stack)
                /\ incoming.kind = "Operator" /\ incoming.id = output[token_index].id
                /\ SubSeq(operator_stack', 1, kept) = SubSeq(operator_stack, 1, kept)
                /\ rpn' = rpn \o popped
                /\ \A j \in 1..Len(popped) :
                      /\ popped[j].kind = "Operator"
                      /\ popped[j].op.precedence >= incoming.op.precedence
                /\ kept > 0 =>
                      \/ operator_stack[kept].kind = "OpeningParenthesis"
                      \/ /\ operator_stack[kept].kind = "Operator"
                         /\ operator_stack[kept].op.precedence < incoming.op.precedence
       /\ (solve_result' # "running" /\ input = <<"2", "^", "3", "^", "2">>) =>
             (solve_result' = "ok" /\ solution' = <<Int2F64(64)>>)
       /\ (solve_result' # "running" /\ input = <<"8", "-", "3", "-", "2">>) =>
             (solve_result' = "ok" /\ solution' = <<Int2F64(3)>>)
      ]_vars

\* "8-3-2" was compiled with the first '-' popped by the second, and solved.
C6_Witness ==
    /\ input = <<"8", "-", "3", "-", "2">>
    /\ [i \in 1..Len(rpn) |-> rpn[i].id] = <<<<"8">>, <<"3">>, <<"-">>, <<"2">>, <<"-">>>>
    /\ ReturnsValue(3)

\* C7: an input whose last token is an operator fails with DanglingOperator
\* and returns no token sequence, with or without trailing whitespace.
C7_DanglingOperator ==
    /\ lex_result = "ok" => (output = <<>> \/ Last(output).kind # "Operator")
    /\ (LexReturned /\ input \in {<<"3", " ", "+">>, <<"3", " ", "+", " ">>}) => lex_result = "DanglingOperator"

Count(text, c) == Cardinality({i \in 1..Len(text) : text[i] = c})

\* C8: lexing succeeds only with both balances zero at End; "(1+2)" lexes,
\* "(1+2" fails with UnbalancedParentheses, an input with an unmatched '{' or
\* '}' fails with UnbalancedScope, and with both balances off the failure is
\* UnbalancedParentheses.  The general part is stated for the texts made of
\* "3", blanks, parentheses and scope brackets, which have no other failure.
C8_BalanceAtEnd ==
    /\ lex_result = "ok" => paren_balance_check = 0 /\ scope_balance_check = 0
    /\ LexReturned =>
          /\ input = <<"(", "1", "+", "2", ")">> => lex_result = "ok"
          /\ input = <<"(", "1", "+", "2">> => lex_result = "UnbalancedParentheses"
          /\ (input # <<>> /\ \A i \in 1..Len(input) : input[i] \in {"3", " ", "(", ")", "{", "}"})
             => lex_result =
                   IF Count(input, "(") # Count(input, ")") THEN "UnbalancedParentheses"
                   ELSE IF Count(input, "{") # Count(input, "}") THEN "UnbalancedScope"
                   ELSE "ok"

\* C9: solve never crashes; whenever a pop finds the value stack empty, also
\* the pop of the final result, it returns MalformedExpression.
C9_UnderflowIsAnError ==
    /\ solve_result # "Panic"
    /\ (solve_result # "running" /\ \A i \in 1..Len(rpn) : rpn[i].kind # "NumericLiteral")
       => solve_result = "MalformedExpression"

\* C10: "3 4" lexes and compiles, and solve fails with MalformedExpression;
\* solve never returns Ok with operands left over on its stack.
C10_LeftoverOperands ==
    /\ (Finished /\ input = <<"3", " ", "4">>) =>
          /\ lex_result = "ok" /\ compile_result = "ok"
          /\ solve_result = "MalformedExpression"
    /\ solve_result = "ok" => solve_stack = <<>>

\* C11: the lexer terminates on every finite text.  Each token consumes at
\* least one character, so neither Lexer::parse nor Tokenizer::parse ever
\* holds more tokens in its output than the input has characters, and
\* neither runs into a cycle ("Spin").
C11_LexerTerminates ==
    /\ Len(output) <= Len(input)
    /\ Len(tk_output) <= Len(input)
    /\ lex_result # "Spin"
    /\ tk_result # "Spin"

SupportedKinds ==
    {"NumericLiteral", "Operator", "OpeningParenthesis", "ClosingParenthesis"}

UnsupportedKinds ==
    {"Symbol", "StringLiteral", "Keyword", "OpeningScope", "ClosingScope",
     "Separator", "EndOfStatement"}

HasKind(queue, kinds) == \E i \in 1..Len(queue) : queue[i].kind \in kinds

\* C12: Compiler::to_expression fails with UnsupportedToken, and hands no
\* postfix sequence on, whenever the token sequence holds at any position a
\* Symbol, StringLiteral, Keyword, OpeningScope, ClosingScope, Separator or
\* EndOfStatement token; it goes past no such token, and it never fails with
\* UnsupportedToken on a sequence of numeric literals, operators and
\* parentheses only.
C12_UnsupportedToken ==
    /\ compile_result = "running" =>
          \A i \in 1..(token_index - 1) : output[i].kind \in SupportedKinds
    /\ compile_result \notin {"running"} =>
          /\ HasKind(output, UnsupportedKinds) =>
                /\ compile_result = "UnsupportedToken"
                /\ solve_result = "running" /\ solve_stack = <<>> /\ solution = <<>>
          /\ (\A i \in 1..Len(output) : output[i].kind \in SupportedKinds) =>
                compile_result # "UnsupportedToken"

\* The compiler has rejected a separator met inside an open parenthesis,
\* after two supported tokens.
C12_Witness ==
    /\ compile_result = "UnsupportedToken"
    /\ token_index = 3
    /\ output[token_index].kind = "Separator"
    /\ operator_stack # <<>>

Parentheses == {"OpeningParenthesis", "ClosingParenthesis"}

\* C13: parentheses are never emitted.  For every token sequence the lexer
\* accepted that holds only numeric literals, operators and parentheses, the
\* postfix sequence built and returned by Compiler::to_expression holds no
\* OpeningParenthesis and no ClosingParenthesis token.
C13_ParenthesesNeverEmitted ==
    (lex_result = "ok" /\ \A i \in 1..Len(output) : output[i].kind \in SupportedKinds)
    => ~HasKind(rpn, Parentheses)

\* C14: a ClosingParenthesis processed while the operator stack holds no
\* OpeningParenthesis is ignored: the step raises no error and leaves the
\* output sequence and the operator stack as they were.
C14_DanglingCloseIgnored ==
    [][(CompileClosingParenthesis /\ ~HasKind(operator_stack, {"OpeningParenthesis"}))
       => (compile_result' = "running" /\ rpn' = rpn /\ operator_stack' = operator_stack)]_vars

\* C15: the empty text fails with EmptyInput before any character is
\* examined, in Lexer::parse and in Tokenizer::parse; a non-empty text never
\* fails with EmptyInput and goes from Start to NewToken with nothing
\* consumed.
C15_EmptyInput ==
    /\ [](/\ input = <<>> =>
                /\ state = "StartState" /\ chars = input /\ output = <<>>
                /\ LexReturned => lex_result = "EmptyInput"
                /\ tk_current_state = "NewToken" /\ tk_chars = input /\ tk_output = <<>>
                /\ tk_result \in {"start", "EmptyInput"}
          /\ input # <<>> =>
                /\ lex_result # "EmptyInput" /\ tk_result # "EmptyInput"
                /\ state = "StartState" => lex_result = "running")
    /\ [][/\ (StartState /\ input # <<>>) =>
                (state' = "NewToken" /\ chars' = input /\ lex_result' = "running")
          /\ (Tokenizer_Start /\ input # <<>>) =>
                (tk_current_state' = "NewToken" /\ tk_chars' = input
                 /\ tk_result' = "running")]_vars

\* Both lexers have refused the empty text.
C15_Witness ==
    input = <<>> /\ lex_result = "EmptyInput" /\ tk_result = "EmptyInput"

RefDigit(c) == CHOOSE i \in 0..9 : (<<"0">> \o DigitChars)[i + 1] = c

IsDigit(c) == c \in {"0", "1", "2", "3", "4", "5", "6", "7", "8", "9"}

\* A digit run with at most one decimal point, which a digit begins.
IsDecimalLiteral(text) ==
    /\ text # <<>>
    /\ IsDigit(text[1])
    /\ \A i \in 1..Len(text) : IsDigit(text[i]) \/ text[i] = "."
    /\ Cardinality({i \in 1..Len(text) : text[i] = "."}) <= 1

\* The whole number a run of decimal digits denotes, read from the left.
RECURSIVE RefWhole(_, _)
RefWhole(text, acc) ==
    IF text = <<>> THEN acc ELSE RefWhole(Tail(text), 10 * acc + RefDigit(Head(text)))

\* The decimal value of a decimal literal: whole part plus fraction.
RefDecimal(text) ==
    LET points == {i \in 1..Len(text) : text[i] = "."}
        whole == IF points = {} THEN text
                 ELSE SubSeq(text, 1, (CHOOSE i \in points : TRUE) - 1)
        fraction == IF points = {} THEN <<>>
                    ELSE SubSeq(text, (CHOOSE i \in points : TRUE) + 1, Len(text))
    IN F64Add(Int2F64(RefWhole(whole, 0)),
              F64Div(Int2F64(RefWhole(fraction, 0)), Int2F64(Pow(10, Len(fraction)))))

\* C16: for every valid decimal literal s, Lexer::parse of s yields exactly
\* one token: a NumericLiteral whose lexeme is s and whose value is the
\* decimal value of s ("123", "12.34", "0", "0.5").
C16_DecimalLiteral ==
    (LexReturned /\ IsDecimalLiteral(input)) =>
        /\ lex_result = "ok"
        /\ Len(output) = 1
        /\ output[1].kind = "NumericLiteral"
        /\ output[1].id = input
        /\ output[1].value = <<RefDecimal(input)>>

\* "12.34" has been lexed to its one token.
C16_Witness ==
    /\ input = <<"1", "2", ".", "3", "4">>
    /\ lex_result = "ok"
    /\ Len(output) = 1
    /\ output[1].value = <<Finite(1234, 100)>>

IsIdentifierCharacter(c) == c \in SYMBOL_CHARACTERS /\ ~IsDigit(c)

CompletesNumericLiteral ==
    /\ lex_result' = "running"
    /\ state' = "CompleteToken"
    /\ chars' = chars
    /\ current_token'.kind = "NumericLiteral"
    /\ current_token'.id = current_token_string

\* C17: in the NumericLiteral state a second decimal point fails with
\* MalformedNumber, and so does a digit run ended by an identifier character
\* (a letter or the underscore); a digit run ended by any other character or
\* by the end of the input completes one NumericLiteral token.  Hex and
\* binary literals apply the same rule to a trailing identifier character.
C17_NumericLiteralEnd ==
    [][/\ NumericLiteral =>
            IF chars = <<>> THEN CompletesNumericLiteral
            ELSE IF Head(chars) = "." THEN
                 (IF decimal_point_found THEN lex_result' = "MalformedNumber"
                  ELSE state' = "NumericLiteral" /\ lex_result' = "running")
            ELSE IF IsDigit(Head(chars)) THEN
                 state' = "NumericLiteral" /\ lex_result' = "running"
            ELSE IF IsIdentifierCharacter(Head(chars)) THEN lex_result' = "MalformedNumber"
            ELSE CompletesNumericLiteral
       /\ (HexNumericLiteral /\ chars # <<>> /\ Head(chars) \notin HEX_NUMERIC_DIGITS
           /\ IsIdentifierCharacter(Head(chars))) => lex_result' = "MalformedNumber"
       /\ (BinaryNumericLiteral /\ chars # <<>> /\ Head(chars) \notin BINARY_NUMERIC_DIGITS
           /\ Head(chars) \in SYMBOL_CHARACTERS) => lex_result' = "MalformedNumber"]_vars

\* C18: in the FancyNumericLiteral state, entered with the leading "0"
\* consumed, the next character decides: "x" goes to HexNumericLiteral, "b"
\* to BinaryNumericLiteral, a decimal digit or "." to NumericLiteral without
\* being consumed, and any other character fails with MalformedNumber; in
\* Lexer::parse and in Tokenizer::parse alike.
C18_FancyNumericLiteral ==
    [][/\ (FancyNumericLiteral /\ chars # <<>>) =>
            IF Head(chars) = "x"
            THEN state' = "HexNumericLiteral" /\ chars' = Tail(chars)
            ELSE IF Head(chars) = "b"
            THEN state' = "BinaryNumericLiteral" /\ chars' = Tail(chars)
            ELSE IF IsDigit(Head(chars)) \/ Head(chars) = "."
            THEN state' = "NumericLiteral" /\ chars' = chars
            ELSE lex_result' = "MalformedNumber"
       /\ Tokenizer_FancyNumericLiteral =>
            IF Head(tk_chars) = "x"
            THEN tk_current_state' = "HexNumericLiteral" /\ tk_chars' = Tail(tk_chars)
            ELSE IF Head(tk_chars) = "b"
            THEN tk_current_state' = "BinaryNumericLiteral" /\ tk_chars' = Tail(tk_chars)
            ELSE IF IsDigit(Head(tk_chars)) \/ Head(tk_chars) = "."
            THEN tk_current_state' = "NumericLiteral" /\ tk_chars' = tk_chars
            ELSE tk_result' = "MalformedNumber"]_vars

OneNumericLiteral(queue, lexeme, value) ==
    queue = <<Token("NumericLiteral", NoOperator, <<Int2F64(value)>>, lexeme)>>

\* C19 as the specification states it: "0xFF" lexes to a NumericLiteral of
\* value 255 and "0b101" to a NumericLiteral of value 3.
C19_ClaimedValues ==
    LexReturned =>
        /\ input = <<"0", "x", "F", "F">> =>
              lex_result = "ok" /\ OneNumericLiteral(output, input, 255)
        /\ input = <<"0", "b", "1", "0", "1">> =>
              lex_result = "ok" /\ OneNumericLiteral(output, input, 3)

\* C19: "0xFF" lexes to one NumericLiteral of value 255 and "0b101" to one
\* NumericLiteral of value 5, the binary numeral read in base two, in
\* Lexer::parse and in Tokenizer::parse.
C19_HexAndBinaryValues ==
    /\ LexReturned =>
          /\ input = <<"0", "x", "F", "F">> =>
                lex_result = "ok" /\ OneNumericLiteral(output, input, 255)
          /\ input = <<"0", "b", "1", "0", "1">> =>
                lex_result = "ok" /\ OneNumericLiteral(output, input, 5)
    /\ TokenizerReturned =>
          /\ input = <<"0", "x", "F", "F">> =>
                tk_result = "ok" /\ OneNumericLiteral(tk_output, input, 255)
          /\ input = <<"0", "b", "1", "0", "1">> =>
                tk_result = "ok" /\ OneNumericLiteral(tk_output, input, 5)

\* "0b101" has been lexed to 5 and, in another run, "0xFF" to 255.
C19_Witness ==
    /\ lex_result = "ok"
    /\ \/ input = <<"0", "b", "1", "0", "1">> /\ OneNumericLiteral(output, input, 5)
       \/ input = <<"0", "x", "F", "F">> /\ OneNumericLiteral(output, input, 255)

\* A prefix with no digits, and digit runs one digit past a u64.
LenientLiterals ==
    {<<"0", "x">>, <<"0", "b">>,
     <<"0", "x", "1">> \o Repeat("0", U64HexDigits),
     <<"0", "b", "1">> \o Repeat("0", U64BinDigits)}

\* C20: hex and binary coercion never fails.  A prefix with no digits ("0x",
\* "0b") and a digit run that does not fit a u64 lex in Lexer::parse to one
\* NumericLiteral of value 0 whose lexeme is the literal text, prefix
\* included; leading zeros do not count against the width.
C20_LenientCoercion ==
    LexReturned =>
        /\ input \in LenientLiterals =>
              lex_result = "ok" /\ OneNumericLiteral(output, input, 0)
        /\ input = <<"0", "x">> \o Repeat("0", U64HexDigits) \o <<"1">> =>
              lex_result = "ok" /\ OneNumericLiteral(output, input, 1)
        /\ input = <<"0", "b">> \o Repeat("0", U64BinDigits) \o <<"1">> =>
              lex_result = "ok" /\ OneNumericLiteral(output, input, 1)

\* A binary literal of 65 significant digits has been lexed to 0.
C20_Witness ==
    /\ input = <<"0", "b", "1">> \o Repeat("0", U64BinDigits)
    /\ lex_result = "ok"
    /\ OneNumericLiteral(output, input, 0)

----------------------------------------------------------------------------
(* Operator scanning.                                                      *)

\* The spellings of the operator catalog.
Catalog ==
    {<<"+">>, <<"-">>, <<"*">>, <<"/">>, <<"^">>, <<"!">>, <<">">>, <<"<">>}
    \cup TwoCharacterSpellings

\* The step completes an operator token for the accumulated spelling and
\* leaves the input position where it was.
CompletesOperator ==
    /\ lex_result' = "running"
    /\ state' = "CompleteToken"
    /\ chars' = chars
    /\ current_token'.kind = "Operator"
    /\ current_token' = Token_from_operator(Operator_from(current_token_string)[1])

OperatorKinds(queue) == [i \in 1..Len(queue) |-> queue[i].op.kind]

\* C21: in the Operator state, an accumulated two-character spelling met by
\* a non-operator character completes one operator token; an accumulated
\* catalog spelling that the next operator character would not extend to a
\* catalog spelling completes without consuming that character; a
\* two-character spelling between two literals lexes to exactly one operator
\* token, and "2*-3" lexes as 2, *, -, 3.
C21_GreedyAndExact ==
    /\ [](\A sp \in TwoCharacterSpellings :
            (LexReturned /\ input = <<"1">> \o sp \o <<"2">>) =>
                /\ lex_result = "ok"
                /\ Len(output) = 3
                /\ output[2] = Token_from_operator(Operator_from(sp)[1]))
    /\ []((LexReturned /\ input = <<"2", "*", "-", "3">>) =>
            /\ lex_result = "ok"
            /\ [i \in 1..Len(output) |-> output[i].id] = <<<<"2">>, <<"*">>, <<"-">>, <<"3">>>>)
    /\ [][(Handling("OperatorState") /\ chars # <<>>) =>
            LET c == Head(chars)
            IN /\ (c \notin OPERATOR_CHARACTERS /\ current_token_string \in TwoCharacterSpellings)
                    => CompletesOperator
               /\ (c \in OPERATOR_CHARACTERS /\ current_token_string \in Catalog
                   /\ Append(current_token_string, c) \notin Catalog)
                    => CompletesOperator]_vars

\* C22: a run of operator characters that is no catalog spelling fails with
\* UnknownOperator when a non-operator character ends it ("1 = 2", "1 $ 2",
\* "1 =- 2"), and every operator token in the output carries a spelling and
\* an operator of the catalog.
C22_UnknownOperator ==
    /\ [](\A run \in {<<"=">>, <<"$">>, <<"=", "-">>} :
            (LexReturned /\ input = <<"1", " ">> \o run \o <<" ", "2">>) =>
                lex_result = "UnknownOperator")
    /\ [](\A i \in 1..Len(output) :
            output[i].kind = "Operator" =>
                /\ output[i].id \in Catalog
                /\ \E sp \in Catalog : output[i].op = Operator_from(sp)[1])
    /\ [][(Handling("OperatorState") /\ chars # <<>>
           /\ Head(chars) \notin OPERATOR_CHARACTERS
           /\ current_token_string \notin Catalog) =>
             (lex_result' = "UnknownOperator" /\ output' = output)]_vars

----------------------------------------------------------------------------
(* Character classification.                                               *)

\* C25: classification is total: a character at the start of a token whose
\* code point is 256 or more is routed to the Symbol path, and no lookup
\* reads outside the 256-entry tables (the lexer never stops on such a read).
C25_ClassificationTotal ==
    /\ [](lex_result = "Panic" => ~(chars # <<>> /\ OutOfTable(Head(chars))))
    /\ [][(Handling("NewToken") /\ chars # <<>> /\ OutOfTable(Head(chars))) =>
            (lex_result' = "running" /\ state' = "SymbolName")]_vars

----------------------------------------------------------------------------
(* The balance counters.                                                   *)

\* The part of the input the lexer has consumed.
Consumed == SubSeq(input, 1, Len(input) - Len(chars))

\* C30: at every step of the lexer the parenthesis counter is the number of
\* '(' consumed minus the number of ')' consumed, and the scope counter
\* likewise for '{' and '}' (texts without string literals, whose content
\* is not counted); consuming a ')' at counter 0 neither stops the lexer nor
\* wraps the counter, and the lexer then ends with UnbalancedParentheses.
C30_BalanceCounters ==
    /\ []("\"" \notin {input[i] : i \in 1..Len(input)} =>
            /\ paren_balance_check = Count(Consumed, "(") - Count(Consumed, ")")
            /\ scope_balance_check = Count(Consumed, "{") - Count(Consumed, "}"))
    /\ [][(Handling("ParenthesisClose") /\ paren_balance_check = 0) =>
            (lex_result' = "running" /\ paren_balance_check' = -1)]_vars
    /\ []((LexReturned /\ input \in {<<")">>, <<"3", ")">>, <<"1", ")", ")">>}) =>
            lex_result = "UnbalancedParentheses")

----------------------------------------------------------------------------
(* Token fields.                                                           *)

ValueIffNumeric(token) == (token.value # <<>>) <=> (token.kind = "NumericLiteral")

\* C26: in every token the lexer has put in its output and in every token
\* the compiler holds (operator stack, previous token, postfix queue, the
\* re-tagged operators among them) the numeric value is present exactly when
\* the kind is NumericLiteral.
C26_ValueIffNumericLiteral ==
    /\ \A i \in 1..Len(output) : ValueIffNumeric(output[i])
    /\ \A i \in 1..Len(operator_stack) : ValueIffNumeric(operator_stack[i])
    /\ \A i \in 1..Len(previous_token) : ValueIffNumeric(previous_token[i])
    /\ \A i \in 1..Len(rpn) : ValueIffNumeric(rpn[i])

\* "-5" compiled: a literal with its value and the re-tagged Negate without.
C26_Witness ==
    /\ input = <<"-", "5">>
    /\ compile_result = "ok"
    /\ Len(rpn) = 2
    /\ rpn[1].kind = "NumericLiteral" /\ rpn[1].value = <<Int2F64(5)>>
    /\ rpn[2].op.kind = "Negate" /\ rpn[2].value = <<>>

----------------------------------------------------------------------------
(* The order of the lexer's states.                                        *)

TokenBuildingStates ==
    {"NumericLiteral", "StringLiteral", "SymbolName", "OperatorState",
     "FancyNumericLiteral", "BinaryNumericLiteral", "HexNumericLiteral",
     "ParenthesisOpen", "ParenthesisClose", "ScopeOpen", "ScopeClose",
     "Separator", "EndOfStatement"}

\* A step of the running lexer that is not cut off by the bound on its output.
LexerStep == lex_result = "running" /\ lex_result' # "Spin"

\* C27: the output changes only in CompleteToken, which appends the current
\* token, exactly one per visit, at the end; CompleteToken is entered only
\* from a token-building state; it hands over to NewToken when input remains
\* and to End when none does; End is entered only from NewToken or
\* CompleteToken with no input left; End validates the balances once: its
\* step returns, and the lexer takes no step after it has returned.
C27_StateOrder ==
    /\ [][LexerStep =>
            /\ output' # output => state = "CompleteToken"
            /\ state = "CompleteToken" =>
                 /\ output' = Append(output, current_token)
                 /\ state' = (IF chars # <<>> THEN "NewToken" ELSE "EndState")
                 /\ chars' = chars
            /\ (state' = "CompleteToken" /\ state' # state) => state \in TokenBuildingStates
            /\ (state' = "EndState" /\ state' # state) =>
                 (state \in {"NewToken", "CompleteToken"} /\ chars = <<>>)
            /\ state = "EndState" => (lex_result' # "running" /\ state' = "EndState")]_vars
    /\ [][(lex_result # "running" /\ retokenized' = retokenized) => UNCHANGED lexer_vars]_vars

\* "1+2" lexed: three visits of CompleteToken, then End returned Ok.
C27_Witness ==
    /\ input = <<"1", "+", "2">>
    /\ state = "EndState"
    /\ lex_result = "ok"
    /\ [i \in 1..Len(output) |-> output[i].id] = <<<<"1">>, <<"+">>, <<"2">>>>

----------------------------------------------------------------------------
(* Operand order in solve.                                                 *)

\* The stack without its n topmost values.
Below(stack, n) == SubSeq(stack, 1, Len(stack) - n)

\* C28: a binary operator met by solve with two values on the stack replaces
\* them by compute(op, left, right), right being the top of the stack and
\* left the value below it, so [a, b, -] is a - b and [a, b, /] is a / b; a
\* unary operator replaces the top of the stack by one value; "a-b" and
\* "a/b" evaluate to the difference and the quotient in that order, "3-5"
\* to -2.
C28_OperandOrder ==
    /\ [][(Solving /\ HasPostfixToken /\ rpn[rpn_index].kind = "Operator"
           /\ Len(solve_stack) >= rpn[rpn_index].op.arity) =>
            LET operator == rpn[rpn_index].op
                n == Len(solve_stack)
            IN /\ operator.arity = 2 =>
                    /\ Len(solve_stack') = n - 1
                    /\ Below(solve_stack', 1) = Below(solve_stack, 2)
                    /\ Last(solve_stack') =
                          compute_2(operator, solve_stack[n - 1], solve_stack[n])
                    /\ operator.kind = "Difference" =>
                          Last(solve_stack') = F64Sub(solve_stack[n - 1], solve_stack[n])
                    /\ operator.kind = "Quotient" =>
                          Last(solve_stack') = F64Div(solve_stack[n - 1], solve_stack[n])
               /\ operator.arity = 1 =>
                    /\ Len(solve_stack') = n
                    /\ Below(solve_stack', 1) = Below(solve_stack, 1)
                    /\ Last(solve_stack') = compute_1(operator, solve_stack[n])]_vars
    /\ [](\A a \in 1..9, b \in 1..9 :
            /\ (solve_result = "ok" /\ input = <<DigitChars[a], "-", DigitChars[b]>>) =>
                  solution = <<Int2F64(a - b)>>
            /\ (solve_result = "ok" /\ input = <<DigitChars[a], "/", DigitChars[b]>>) =>
                  solution = <<F64Div(Int2F64(a), Int2F64(b))>>)

\* "3-5" solved to -2.
C28_Witness ==
    /\ input = <<"3", "-", "5">>
    /\ solve_result = "ok"
    /\ solution = <<Int2F64(-2)>>

----------------------------------------------------------------------------
(* The infix rendering.                                                    *)

\* C24: display_infix returns MalformedExpression exactly when solve does on
\* the same expression, and returns a text exactly when solve returns a
\* value.
C24_InfixFailsAsSolve ==
    infix_result # "running" =>
        /\ (infix_result = "MalformedExpression") <=> (solve_result = "MalformedExpression")
        /\ (infix_result = "ok") <=> (solve_result = "ok")

\* "3 + " compiles to 3 + with one operand: both fail.
C24_Witness ==
    /\ input = <<"3", " ", "+", " ">>
    /\ compile_result = "ok"
    /\ solve_result = "MalformedExpression"
    /\ infix_result = "MalformedExpression"

\* The index where the operand that ends at the i-th postfix token starts.
RECURSIVE OperandStart(_, _)
OperandStart(queue, i) ==
    IF queue[i].kind = "NumericLiteral" THEN i
    ELSE IF queue[i].op.arity = 1 THEN OperandStart(queue, i - 1)
    ELSE OperandStart(queue, OperandStart(queue, i - 1) - 1)

\* The text of the operand that ends at the i-th postfix token: a literal is
\* its lexeme, a unary operator its spelling followed by its operand, a
\* binary operator "left op right", in parentheses unless the operator is
\* the last token of the queue.
RECURSIVE Rendered(_, _)
Rendered(queue, i) ==
    LET spelling == OperatorKind_to_string(queue[i].op.kind)
    IN IF queue[i].kind = "NumericLiteral" THEN queue[i].id
       ELSE IF queue[i].op.arity = 1 THEN spelling \o Rendered(queue, i - 1)
       ELSE LET right == Rendered(queue, i - 1)
                left == Rendered(queue, OperandStart(queue, i - 1) - 1)
                body == left \o <<" ">> \o spelling \o <<" ">> \o right
            IN IF i = Len(queue) THEN body ELSE <<"(">> \o body \o <<")">>

\* C29: on a postfix queue of literals and operators that display_infix
\* renders, the text puts every binary combination in parentheses as
\* "(left op right)" except the one made by the last token of the queue,
\* which is "left op right", and writes a unary operator directly before
\* its operand; "2+3*4" gives "2 + (3 * 4)", "(3 + 4) * 2" gives
\* "(3 + 4) * 2", "-3 + 5" gives "-3 + 5", "2*-3" gives "2 * -3" and
\* "3-(-5)" gives "3 - -5".
C29_InfixParentheses ==
    infix_result = "ok" =>
        /\ (\A i \in 1..Len(rpn) : rpn[i].kind \in {"NumericLiteral", "Operator"}) =>
              infix_text = Rendered(rpn, Len(rpn))
        /\ input = <<"2", "+", "3", "*", "4">> =>
              infix_text = <<"2", " ", "+", " ", "(", "3", " ", "*", " ", "4", ")">>
        /\ input = <<"(", "3", " ", "+", " ", "4", ")", " ", "*", " ", "2">> =>
              infix_text = <<"(", "3", " ", "+", " ", "4", ")", " ", "*", " ", "2">>
        /\ input = <<"-", "3", " ", "+", " ", "5">> =>
              infix_text = <<"-", "3", " ", "+", " ", "5">>
        /\ input = <<"2", "*", "-", "3">> => infix_text = <<"2", " ", "*", " ", "-", "3">>
        /\ input = <<"3", "-", "(", "-", "5", ")">> =>
              infix_text = <<"3", " ", "-", " ", "-", "5">>

\* "2+3*4" rendered: the inner product in parentheses, the outer sum bare.
C29_Witness ==
    /\ input = <<"2", "+", "3", "*", "4">>
    /\ infix_result = "ok"
    /\ infix_text = <<"2", " ", "+", " ", "(", "3", " ", "*", " ", "4", ")">>

----------------------------------------------------------------------------
(* The postfix rendering.                                                  *)

\* The lexemes of the tokens from the i-th on, each but the first after a
\* blank.
RECURSIVE SpaceJoined(_, _)
SpaceJoined(queue, i) ==
    IF i > Len(queue) THEN <<>>
    ELSE (IF i > 1 THEN <<" ">> ELSE <<>>) \o queue[i].id \o SpaceJoined(queue, i + 1)

\* C23: the postfix rendering of a compiled expression, given to the lexer
\* again, lexes, and the lexemes of its tokens joined by blanks are the
\* rendering itself.
C23_PostfixRoundTrip ==
    (retokenized /\ LexReturned) =>
        /\ lex_result = "ok"
        /\ SpaceJoined(output, 1) = input

----------------------------------------------------------------------------
(* The compiler's frame.                                                   *)

\* C31: no step of to_expression changes the token sequence it was given,
\* and the token it puts on the operator stack for an operator of the input
\* is an operator token with the lexeme and the absent value of the input
\* token, which it also remembers as the previous token.
C31_RetaggingFrame ==
    [][Compiling =>
        /\ output' = output
        /\ (HasToken /\ output[token_index].kind = "Operator"
            /\ compile_result' = "running") =>
              LET token == output[token_index]
                  updated_token == Last(operator_stack')
              IN /\ operator_stack' # <<>>
                 /\ updated_token.kind = "Operator"
                 /\ updated_token.id = token.id
                 /\ updated_token.value = token.value /\ token.value = <<>>
                 /\ previous_token' = <<updated_token>>]_vars

\* "-5" compiled: the lexer's Difference token is still in the lexer output,
\* and its re-tagged copy, Negate with the same lexeme, is in the postfix.
C31_Witness ==
    /\ input = <<"-", "5">>
    /\ compile_result = "ok"
    /\ output[1].op.kind = "Difference"
    /\ Len(rpn) = 2 /\ rpn[2].op.kind = "Negate"
    /\ rpn[2].id = output[1].id /\ rpn[2].value = <<>>

----------------------------------------------------------------------------
(* Prefix operators.                                                       *)

\* Texts of the grammar E ::= number | E binop E | unop E with a prefix
\* operator: two prefixes before a literal, a prefix before the right
\* operand of a binary operator, and a prefix before its left operand.
PrefixedExpressions ==
    {u1 \o u2 \o <<"5">> : u1 \in PrefixSpellings, u2 \in PrefixSpellings}
    \cup {<<"2", " ">> \o o \o <<" ">> \o u \o <<"3">> :
             u \in PrefixSpellings, o \in BinarySpellings}
    \cup {u \o <<"2", " ">> \o o \o <<" ", "3">> :
             u \in PrefixSpellings, o \in BinarySpellings}

\* C32: an expression with prefix operators lexes and compiles, and solve
\* does not fail on its postfix with MalformedExpression.
C32_PrefixOperators ==
    input \in PrefixedExpressions =>
        /\ lex_result \in {"running", "ok"}
        /\ compile_result \in {"running", "ok"}
        /\ solve_result # "MalformedExpression"

----------------------------------------------------------------------------
(* Nesting.                                                                *)

KindCount(queue, kind) == Cardinality({i \in 1..Len(queue) : queue[i].kind = kind})

\* Every prefix of the queue has at least as many opening as closing
\* parentheses and at least as many opening as closing scope brackets.
ProperlyNested(queue) ==
    \A n \in 0..Len(queue) :
        LET prefix == SubSeq(queue, 1, n)
        IN /\ KindCount(prefix, "OpeningParenthesis") >= KindCount(prefix, "ClosingParenthesis")
           /\ KindCount(prefix, "OpeningScope") >= KindCount(prefix, "ClosingScope")

\* C33: a token sequence that Lexer::parse or Tokenizer::parse returns with
\* Ok is properly nested, and ")(" and "1)+(2" are not accepted.
C33_BalanceImpliesNesting ==
    /\ lex_result = "ok" => ProperlyNested(output)
    /\ tk_result = "ok" => ProperlyNested(tk_output)
    /\ input \in {<<")", "(">>, <<"1", ")", "+", "(", "2">>} =>
          (lex_result # "ok" /\ tk_result # "ok")

----------------------------------------------------------------------------
(* The two lexers.                                                         *)

ArithmeticCharacters ==
    NUMERIC_DIGITS \cup {".", "+", "-", "*", "/", "^", "(", ")", " "}

\* The two tokens agree in kind, lexeme and numeric value.
SameToken(a, b) == a.kind = b.kind /\ a.id = b.id /\ a.value = b.value

\* C34: on a text of digits, '.', + - * / ^, parentheses and blanks, once
\* Tokenizer::parse and Lexer::parse have both returned, either both failed
\* or both returned Ok with sequences of the same length whose tokens agree
\* position by position in kind, lexeme and numeric value.
C34_LexersAgree ==
    ((\A i \in 1..Len(input) : input[i] \in ArithmeticCharacters)
     /\ TokenizerReturned /\ LexReturned) =>
        /\ (tk_result = "ok") <=> (lex_result = "ok")
        /\ (tk_result = "ok" /\ lex_result = "ok") =>
              /\ Len(tk_output) = Len(output)
              /\ \A i \in 1..Len(output) : SameToken(tk_output[i], output[i])

----------------------------------------------------------------------------
(* The operator stack.                                                     *)

Kinds(queue) == [i \in 1..Len(queue) |-> queue[i].kind]

\* C35: the operator stack holds only Operator and OpeningParenthesis
\* tokens; neither pop loop meets a token it would neither pop nor stop at;
\* every step of to_expression takes the next token of the queue or
\* returns, so the compilation of a queue of n tokens returns after at most
\* n + 1 steps.
C35_OperatorStackKinds ==
    /\ [](\A i \in 1..Len(operator_stack) :
             operator_stack[i].kind \in {"Operator", "OpeningParenthesis"})
    /\ [](compile_result # "Spin")
    /\ [](token_index <= Len(output) + 1)
    /\ [][Compiling =>
            \/ compile_result' = "running" /\ token_index' = token_index + 1
            \/ compile_result' # "running"]_vars

\* "7*(5-6)" after the '-': an operator, the parenthesis and an operator.
C35_Witness ==
    /\ input = <<"7", "*", "(", "5", "-", "6", ")">>
    /\ compile_result = "running"
    /\ Kinds(operator_stack) = <<"Operator", "OpeningParenthesis", "Operator">>

----------------------------------------------------------------------------
(* Compilation reorders.                                                   *)

\* The tokens of the given kind, in the order of the queue.
OfKind(queue, kind) == SelectSeq(queue, LAMBDA token : token.kind = kind)

\* The lexemes of the operator tokens of the queue.
OperatorLexemes(queue) == {queue[i].id : i \in {j \in 1..Len(queue) : queue[j].kind = "Operator"}}

\* How many operator tokens of the queue have the lexeme.
OperatorCount(queue, lexeme) ==
    Cardinality({i \in 1..Len(queue) : queue[i].kind = "Operator" /\ queue[i].id = lexeme})

\* The tokens of the lexer output the compiler has processed.
Processed == SubSeq(output, 1, token_index - 1)

\* C36: while to_expression runs and when it has returned Ok, the numeric
\* literals of the postfix queue are the literals processed so far, in
\* their order, and each operator processed so far is once in the postfix
\* queue or on the operator stack (counted by lexeme, which re-tagging
\* keeps); when it has returned Ok the operator stack is empty and the
\* postfix queue holds every literal and every operator of the input once.
C36_OnlyReorders ==
    (lex_result = "ok" /\ compile_result \in {"running", "ok"}) =>
        /\ OfKind(rpn, "NumericLiteral") = OfKind(Processed, "NumericLiteral")
        /\ \A lexeme \in OperatorLexemes(Processed) \cup OperatorLexemes(rpn)
                         \cup OperatorLexemes(operator_stack) :
              OperatorCount(rpn, lexeme) + OperatorCount(operator_stack, lexeme)
                 = OperatorCount(Processed, lexeme)
        /\ compile_result = "ok" =>
              /\ operator_stack = <<>>
              /\ Processed = output
              /\ Len(OfKind(rpn, "Operator")) = Len(OfKind(output, "Operator"))

\* "7*(5-6)" after the ')': 7 5 6 - in the postfix, '*' still on the stack.
C36_Witness ==
    /\ input = <<"7", "*", "(", "5", "-", "6", ")">>
    /\ compile_result = "running"
    /\ token_index = 8
    /\ [i \in 1..Len(rpn) |-> rpn[i].id] = <<<<"7">>, <<"5">>, <<"6">>, <<"-">>>>
    /\ [i \in 1..Len(operator_stack) |-> operator_stack[i].id] = <<<<"*">>>>

----------------------------------------------------------------------------
(* Tokens of no kind.                                                      *)

\* C37: no token of kind Unknown is in the output of Lexer::parse or of
\* Tokenizer::parse, at any step; the token CompleteToken is about to push
\* has a definite kind; the compiler never returns the error of its Unknown
\* arms.
C37_NoUnknownToken ==
    /\ \A i \in 1..Len(output) : output[i].kind # "Unknown"
    /\ \A i \in 1..Len(tk_output) : tk_output[i].kind # "Unknown"
    /\ (lex_result = "running" /\ state = "CompleteToken") => current_token.kind # "Unknown"
    /\ (tk_result = "running" /\ tk_current_state = "CompleteToken") =>
          tk_current_token.kind # "Unknown"
    /\ compile_result # "MissedParsingError"

\* "{x,"s";}" lexed: tokens of six kinds, none Unknown.
C37_Witness ==
    /\ input = <<"{", "x", ",", "\"", "s", "\"", ";", "}">>
    /\ lex_result = "ok"
    /\ Kinds(output) = <<"OpeningScope", "Symbol", "Separator", "StringLiteral",
                         "EndOfStatement", "ClosingScope">>

----------------------------------------------------------------------------
(* A literal and what follows it.                                          *)

\* C38: a one-digit decimal literal d, the digit 0 included, lexes to the
\* NumericLiteral token of lexeme d and value d at the end of the input,
\* before a blank, before an operator and before ')'.
C38_LiteralInContext ==
    \A c \in NUMERIC_DIGITS :
        LET d == <<c>>
            literal == Token("NumericLiteral", NoOperator, <<Int2F64(DigitValue(c))>>, d)
        IN /\ (LexReturned /\ input = d) => (lex_result = "ok" /\ output = <<literal>>)
           /\ (LexReturned /\ input = d \o <<" ">>) =>
                 (lex_result = "ok" /\ output = <<literal>>)
           /\ (LexReturned /\ input = d \o <<"+", "1">>) =>
                 (lex_result = "ok" /\ Len(output) = 3 /\ output[1] = literal)
           /\ (LexReturned /\ input = <<"(">> \o d \o <<")">>) =>
                 (lex_result = "ok" /\ Len(output) = 3 /\ output[2] = literal)

=============================================================================
